---- MODULE Spec2Model ----
(***************************************************************************)
(* Model of the OCR core of backend/ocr/processor.py: the availability     *)
(* probe (check_tesseract_availability), the language cascade              *)
(* (detect_ocr_language), the variant generator (preprocess_image), the    *)
(* quality evaluator (evaluate_preprocessing_quality), the two pipelines   *)
(* (process_image, extract_text_with_layout), the text cleaner             *)
(* (clean_ocr_text) and the skew correction (deskew_image), with           *)
(* detect_language of backend/utils/translation.py and the second          *)
(* clean_ocr_text and deskew_image of backend/ocr/utils.py.                *)
(*                                                                         *)
(* Python strings that the code splits, concatenates or searches are       *)
(* sequences of one-character strings, so that split('+'), the f-string    *)
(* "<lang>+eng" and the `in` substring test are computed.  Recognised      *)
(* text is a sequence of runs [c |-> class, n |-> length] of characters    *)
(* of one class; the code only strips and counts it.  Floating-point       *)
(* values are exact rationals <<num, den>>; rounding is not modelled.      *)
(***************************************************************************)
EXTENDS Integers, Sequences, FiniteSets, TLC

VARIABLES engine,    \* outcome of pytesseract.get_tesseract_version()
          listMode,  \* outcome of the `tesseract --list-langs` subprocess
          listing,   \* its output when it succeeds
          cache,     \* lru_cache of check_tesseract_availability
          op,        \* the operation that completed last
          det,       \* result and trace of the last detect_ocr_language
          pre,       \* result and trace of the last preprocess_image
          ev,        \* result and trace of the last evaluate_preprocessing_quality
          pipe,      \* result and trace of the last pipeline run
          prb,       \* result and history of the direct probe calls
          conc,      \* two evaluations running concurrently, and temp_eval.png
          cln,       \* argument and result of the last clean_ocr_text
          dsk        \* estimated angle and result of the last deskew_image

vars == <<engine, listMode, listing, cache, op, det, pre, ev, pipe, prb, conc, cln,
          dsk>>

(***************************************************************************)
(* Strings.                                                                *)
(***************************************************************************)
kor     == <<"k","o","r">>
eng     == <<"e","n","g">>
jpn     == <<"j","p","n">>
chi_sim == <<"c","h","i","_","s","i","m">>
chi_tra == <<"c","h","i","_","t","r","a">>
deu     == <<"d","e","u">>
fra     == <<"f","r","a">>
spa     == <<"s","p","a">>
rus     == <<"r","u","s">>
ita     == <<"i","t","a">>
por     == <<"p","o","r">>
ara     == <<"a","r","a">>
hin     == <<"h","i","n">>
vie     == <<"v","i","e">>
tha     == <<"t","h","a">>
auto    == <<"a","u","t","o">>
multi   == <<"m","u","l","t","i">>
kor_vert == <<"k","o","r","_","v","e","r","t">>
osd     == <<"o","s","d">>

\* The value Python's None / a missing dictionary entry is modelled by.
None == <<>>

\* a + "+" + b, the f-string f"{a}+{b}"
Plus(a, b) == a \o <<"+">> \o b

RECURSIVE SplitFrom(_, _, _)
SplitFrom(s, sep, acc) ==
    IF s = <<>> THEN <<acc>>
    ELSE IF Head(s) = sep THEN <<acc>> \o SplitFrom(Tail(s), sep, <<>>)
    ELSE SplitFrom(Tail(s), sep, Append(acc, Head(s)))

\* str.split(sep) for a one-character separator
Split(s, sep) == SplitFrom(s, sep, <<>>)

\* the Python test `a in b` on two strings
IsSubstring(a, b) ==
    \E i \in 0..(Len(b) - Len(a)) : SubSeq(b, i + 1, i + Len(a)) = a

SeqToSet(s) == {s[i] : i \in 1..Len(s)}

(***************************************************************************)
(* OCRConfig.                                                              *)
(***************************************************************************)
MAX_IMAGE_DIMENSION == 2000
CONFIDENCE_THRESHOLD == 30
MIN_TEXT_LENGTH == 10
\* KOREAN_RATIO_WEIGHT = 2.0
KOREAN_RATIO_WEIGHT == 2

DEFAULT_LANG == Plus(kor, eng)

SUPPORTED_LANGUAGES ==
    {kor, eng, jpn, chi_sim, chi_tra, deu, fra, spa, rus, ita, por, ara,
     hin, vie, tha}

\* LANGDETECT_TO_TESSERACT.get(code); detector codes are opaque keys
LANGDETECT_TO_TESSERACT(code) ==
    CASE code = "ko" -> kor
      [] code = "en" -> eng
      [] code = "ja" -> jpn
      [] code = "zh-CN" -> chi_sim
      [] code = "zh-TW" -> chi_tra
      [] code = "de" -> deu
      [] code = "fr" -> fra
      [] code = "es" -> spa
      [] code = "ru" -> rus
      [] code = "it" -> ita
      [] code = "pt" -> por
      [] code = "ar" -> ara
      [] code = "hi" -> hin
      [] code = "vi" -> vie
      [] code = "th" -> tha
      [] OTHER -> None

\* `if lang in COMMON_LANGUAGE_COMBINATIONS: lang = COMMON_...[lang]`:
\* every key maps to itself except 'multi'
COMMON_LANGUAGE_COMBINATIONS(lang) ==
    IF lang = multi
    THEN Plus(kor, Plus(eng, Plus(jpn, Plus(chi_sim, Plus(deu, Plus(fra, spa))))))
    ELSE lang

\* OCRConfig.get_optimal_psm
get_optimal_psm(lang_code) ==
    LET primary == IF "+" \in SeqToSet(lang_code)
                   THEN Split(lang_code, "+")[1] ELSE lang_code
    IN IF primary \in {kor, jpn, chi_sim, chi_tra} THEN 6 ELSE 3

(***************************************************************************)
(* The engine as the probe sees it.                                        *)
(***************************************************************************)
\* "ok": the version query succeeds; "notfound": TesseractNotFoundError;
\* "error": any other exception of the query
EngineModes == {"ok", "notfound", "error"}
\* "ok": check_output returns; "suberr": SubprocessError / TimeoutExpired;
\* "oserr": an exception outside that family (OSError)
ListModes == {"ok", "suberr", "oserr"}

RECURSIVE Lines(_)
Lines(packs) ==
    IF packs = <<>> THEN <<>>
    ELSE Head(packs) \o <<"\n">> \o Lines(Tail(packs))

\* the text `tesseract --list-langs` prints for the installed packs
ListingOf(packs) == <<"#", "\n">> \o Lines(packs)

Listings ==
    { ListingOf(<<>>),
      ListingOf(<<eng, osd>>),
      ListingOf(<<eng, kor, osd>>),
      ListingOf(<<eng, jpn, kor, osd>>),
      ListingOf(<<eng, kor_vert, osd>>) }

(***************************************************************************)
(* check_tesseract_availability and its lru_cache.                         *)
(* A cache key is the tuple of call arguments: <<>> for the call without   *)
(* arguments, <<lang>> otherwise.  The cache is ordered least recently     *)
(* used first.                                                             *)
(***************************************************************************)
CACHE_MAXSIZE == 32

CacheIndex(c, key) ==
    IF \E i \in 1..Len(c) : c[i].key = key
    THEN CHOOSE i \in 1..Len(c) : c[i].key = key
    ELSE 0

CacheTouch(c, i) ==
    SubSeq(c, 1, i - 1) \o SubSeq(c, i + 1, Len(c)) \o <<c[i]>>

CacheInsert(c, key, val) ==
    LET kept == IF Len(c) >= CACHE_MAXSIZE THEN Tail(c) ELSE c
    IN Append(kept, [key |-> key, val |-> val])

\* the body of check_tesseract_availability(lang)
ProbeBody(lang) ==
    IF engine = "notfound" THEN [raised |-> FALSE, val |-> <<FALSE, FALSE>>]
    ELSE IF engine = "error" THEN [raised |-> TRUE, val |-> <<FALSE, FALSE>>]
    ELSE IF listMode = "suberr" THEN [raised |-> FALSE, val |-> <<TRUE, FALSE>>]
    ELSE IF listMode = "oserr" THEN [raised |-> TRUE, val |-> <<FALSE, FALSE>>]
    ELSE LET langs == Split(lang, "+")
         IN [raised |-> FALSE,
             val |-> <<TRUE, \A i \in 1..Len(langs) : IsSubstring(langs[i], listing)>>]

\* a call check_tesseract_availability(*key) through the lru_cache
check_tesseract_availability(key, c) ==
    LET i == CacheIndex(c, key)
        lang == IF key = <<>> THEN DEFAULT_LANG ELSE key[1]
        r == ProbeBody(lang)
    IN IF i # 0
       THEN [raised |-> FALSE, val |-> c[i].val, cache |-> CacheTouch(c, i),
             key |-> key, queried |-> FALSE]
       ELSE IF r.raised
       THEN [raised |-> TRUE, val |-> r.val, cache |-> c,
             key |-> key, queried |-> TRUE]
       ELSE [raised |-> FALSE, val |-> r.val,
             cache |-> CacheInsert(c, key, r.val),
             key |-> key, queried |-> TRUE]

(***************************************************************************)
(* Recognised text: a sequence of runs.  Classes: "H" Hangul syllable      *)
(* [가-힣], "L" ASCII letter [a-zA-Z], "K" kana, "Z" Han ideograph,        *)
(* "D" digit or punctuation, "W" whitespace.                               *)
(***************************************************************************)
Run(c, n) == [c |-> c, n |-> n]

RECURSIVE TextLen(_)
\* len(text)
TextLen(t) == IF t = <<>> THEN 0 ELSE Head(t).n + TextLen(Tail(t))

RECURSIVE CountClass(_, _)
\* len(re.findall(<class>, text))
CountClass(t, cls) ==
    IF t = <<>> THEN 0
    ELSE (IF Head(t).c = cls THEN Head(t).n ELSE 0) + CountClass(Tail(t), cls)

RECURSIVE LStrip(_)
LStrip(t) == IF t # <<>> /\ Head(t).c = "W" THEN LStrip(Tail(t)) ELSE t

RECURSIVE RStrip(_)
RStrip(t) ==
    IF t # <<>> /\ t[Len(t)].c = "W" THEN RStrip(SubSeq(t, 1, Len(t) - 1)) ELSE t

\* text.strip()
Strip(t) == RStrip(LStrip(t))

RECURSIVE JoinSpace(_)
\* " ".join(texts)
JoinSpace(texts) ==
    IF texts = <<>> THEN <<>>
    ELSE IF Len(texts) = 1 THEN texts[1]
    ELSE texts[1] \o <<Run("W", 1)>> \o JoinSpace(Tail(texts))

(***************************************************************************)
(* detect_ocr_language.  `in` holds what the collaborators do in this      *)
(* call:                                                                   *)
(*   key     gemini_api_key_exists after the imports                       *)
(*   gem     the oracle: "raise", "fail" (no usable answer) or a code      *)
(*   samples samples[l][p]: outcome of the trial recognition for the l-th  *)
(*           sample language at the p-th page segmentation mode            *)
(*   hasDet  detect_language was imported                                  *)
(*   stat    langdetect inside detect_language: "raise", "fail" or a code  *)
(*   fbRead  the re-read of the image in the last-resort branch: "none"    *)
(*           (imread gave None), "raise" (any step of the branch raised)   *)
(*           or "ok"                                                       *)
(*   fbText  the text recognised in that branch                            *)
(***************************************************************************)
SAMPLE_LANGS == <<eng, kor, jpn, chi_sim>>
SAMPLE_PSMS == <<3, 6>>
\* `len(sample_text) > 20`
SAMPLE_MIN_LENGTH == 20

\* f"{tesseract_lang}+eng" unless the language is 'eng'
ComposeWithEng(tesseract_lang) ==
    IF tesseract_lang # eng THEN Plus(tesseract_lang, eng) ELSE tesseract_lang

\* `_, lang_installed = check_tesseract_availability(lang_code)`
\* followed by `if lang_installed:`
LangInstalledMut(p) == TRUE
LangInstalled(p) == p.val[2]

\* `if sample_text and len(sample_text) > 20` on the stripped text
SampleAccepted(o) ==
    /\ ~o.raise
    /\ Strip(o.text) # <<>>
    /\ TextLen(Strip(o.text)) > SAMPLE_MIN_LENGTH

\* the inner loop over the page segmentation modes for one sample language
RECURSIVE SampleOne(_, _)
SampleOne(outs, p) ==
    IF p > Len(SAMPLE_PSMS) THEN [texts |-> <<>>, calls |-> 0]
    ELSE IF SampleAccepted(outs[p])
    THEN [texts |-> <<Strip(outs[p].text)>>, calls |-> 1]
    ELSE LET rest == SampleOne(outs, p + 1)
         IN [texts |-> rest.texts, calls |-> rest.calls + 1]

RECURSIVE SampleAll(_, _)
SampleAll(samples, l) ==
    IF l > Len(SAMPLE_LANGS) THEN [texts |-> <<>>, calls |-> 0]
    ELSE LET one == SampleOne(samples[l], 1)
             rest == SampleAll(samples, l + 1)
         IN [texts |-> one.texts \o rest.texts, calls |-> one.calls + rest.calls]

\* pattern_counts, in the insertion order of the dictionary
PatternCounts(text) ==
    << [lang |-> kor, n |-> CountClass(text, "H")],
       [lang |-> eng, n |-> CountClass(text, "L")],
       [lang |-> jpn, n |-> CountClass(text, "K")],
       [lang |-> chi_sim, n |-> CountClass(text, "Z")] >>

\* max(pattern_counts.items(), key=lambda x: x[1])[0]: the first maximum
MainLang(pc) ==
    LET i == CHOOSE i \in 1..Len(pc) :
                 /\ \A j \in 1..Len(pc) : pc[j].n <= pc[i].n
                 /\ \A j \in 1..(i - 1) : pc[j].n < pc[i].n
    IN pc[i].lang

PatternLangMut(text) ==
    LET pc == PatternCounts(text)
        total == pc[1].n + pc[2].n + pc[3].n + pc[4].n
        den == IF total > 1 THEN total ELSE 1
        main_lang == MainLang(pc)
    IN IF main_lang # eng /\ 5 * pc[2].n >= den
       THEN Plus(main_lang, eng) ELSE main_lang
\* the candidate of the character-frequency tier
PatternLang(text) ==
    LET pc == PatternCounts(text)
        total == pc[1].n + pc[2].n + pc[3].n + pc[4].n
        den == IF total > 1 THEN total ELSE 1
        main_lang == MainLang(pc)
    IN \* eng_ratio > 0.2  <=>  eng / den > 1/5
       IF main_lang # eng /\ 5 * pc[2].n > den
       THEN Plus(main_lang, eng) ELSE main_lang

DetResult(ret, tier, c, probes, trials) ==
    [ret |-> ret, raised |-> FALSE, tier |-> tier, cache |-> c,
     probes |-> probes, trials |-> trials, tiers |-> <<>>, failed |-> "none"]

\* control entered the block of a tier on the way to the result r
Entered(tier, r) == [r EXCEPT !.tiers = <<tier>> \o @]

\* the probe p, made by a tier of the cascade
InTier(tier, p) ==
    [key |-> p.key, val |-> p.val, raised |-> p.raised, queried |-> p.queried,
     cache |-> p.cache, tier |-> tier]

\* the candidate of a detector code, probed: used by the oracle tier, the
\* statistical tier and the last-resort branch
ProbeCode(tier, code, c) ==
    LET tesseract_lang == LANGDETECT_TO_TESSERACT(code)
        lang_code == ComposeWithEng(tesseract_lang)
    IN IF tesseract_lang = None
       THEN [probed |-> FALSE, raised |-> FALSE, ok |-> FALSE,
             lang |-> None, cache |-> c, probes |-> <<>>]
       ELSE CHOOSE x \in
              {[probed |-> TRUE, raised |-> p.raised,
                ok |-> ~p.raised /\ LangInstalled(p),
                lang |-> lang_code, cache |-> p.cache,
                probes |-> <<InTier(tier, p)>>] :
                 p \in {check_tesseract_availability(<<lang_code>>, c)}} : TRUE

\* detect_language(text) of utils/translation.py, as the cascade reads it:
\* "fail" for {'success': False}, else the language code.  `lib` is what
\* langdetect.detect answers for a text that has letters ("raise": it
\* raises); a text without any letter gives it no feature, it raises
\* LangDetectException, and so does every pattern score stay below
\* LANGUAGE_PATTERN_CONFIDENCE_THRESHOLD.  Every exception is caught inside
\* detect_language and becomes {'success': False}.
detect_language(text, lib) ==
    IF Strip(text) = <<>> THEN "fail"
    ELSE IF \A i \in 1..Len(text) : text[i].c \in {"D", "W"} THEN "fail"
    ELSE IF lib = "raise" THEN "fail"
    ELSE lib

\* the outcomes of the oracle and of the detector that carry no language code
NoAnswer == {"raise", "fail"}

\* an exception raised in the block of a tier and leaving it
DetRaise(tier, c, probes, trials) ==
    [ret |-> None, raised |-> TRUE, tier |-> "error", cache |-> c,
     probes |-> probes, trials |-> trials, tiers |-> <<>>, failed |-> tier]

\* lines 527-563: no sample was accepted
DetectFallbackBody(in, c, probes, trials) ==
    IF in.fbRead = "none" THEN DetResult(DEFAULT_LANG, "default", c, probes, trials)
    ELSE IF in.fbRead = "raise" THEN DetRaise("fallback", c, probes, trials)
    ELSE IF in.fbText = <<>> \/ ~in.hasDet
              \/ detect_language(in.fbText, in.stat) = "fail"
    THEN DetResult(DEFAULT_LANG, "default", c, probes, trials + 1)
    ELSE LET q == ProbeCode("fallback", detect_language(in.fbText, in.stat), c)
         IN IF q.raised
            THEN DetRaise("fallback", q.cache, probes \o q.probes, trials + 1)
            ELSE IF q.ok
            THEN DetResult(q.lang, "fallback", q.cache, probes \o q.probes, trials + 1)
            ELSE DetResult(DEFAULT_LANG, "default", q.cache, probes \o q.probes,
                           trials + 1)

\* the handler of that branch logs, then control reaches `return default_lang`
DetectFallback(in, c, probes, trials) ==
    Entered("fallback",
      CHOOSE x \in
        {IF r.raised
         THEN [r EXCEPT !.raised = FALSE, !.ret = DEFAULT_LANG, !.tier = "default"]
         ELSE r : r \in {DetectFallbackBody(in, c, probes, trials)}} : TRUE)

DetectPatternMut(in, c, probes, trials, combined_text) ==
    LET lang_code == PatternLang(combined_text)
        p == InTier("pattern", check_tesseract_availability(<<lang_code>>, c))
    IN Entered("pattern",
         IF p.raised
         THEN DetRaise("pattern", p.cache, Append(probes, p), trials)
         ELSE IF LangInstalled(p)
         THEN DetResult(lang_code, "pattern", p.cache, Append(probes, p), trials)
         ELSE DetResult(DEFAULT_LANG, "default", p.cache, Append(probes, p), trials))
\* lines 505-525: the character-frequency tier
DetectPattern(in, c, probes, trials, combined_text) ==
    LET pc == PatternCounts(combined_text)
        lang_code == PatternLang(combined_text)
        p == InTier("pattern", check_tesseract_availability(<<lang_code>>, c))
    IN Entered("pattern",
         IF \A i \in 1..Len(pc) : pc[i].n = 0
         THEN DetResult(DEFAULT_LANG, "default", c, probes, trials)
         ELSE IF p.raised
         THEN DetRaise("pattern", p.cache, Append(probes, p), trials)
         ELSE IF LangInstalled(p)
         THEN DetResult(lang_code, "pattern", p.cache, Append(probes, p), trials)
         ELSE DetResult(DEFAULT_LANG, "default", p.cache, Append(probes, p), trials))

\* lines 481-503: the statistical tier; an exception here leaves the tier
DetectStatistical(in, c, probes, trials, combined_text) ==
    IF ~in.hasDet
    THEN DetectPattern(in, c, probes, trials, combined_text)
    ELSE Entered("statistical",
           IF detect_language(combined_text, in.stat) = "fail"
           THEN DetectPattern(in, c, probes, trials, combined_text)
           ELSE LET q == ProbeCode("statistical",
                                   detect_language(combined_text, in.stat), c)
                IN IF q.raised
                   THEN DetRaise("statistical", q.cache, probes \o q.probes, trials)
                   ELSE IF q.ok
                   THEN DetResult(q.lang, "statistical", q.cache,
                                  probes \o q.probes, trials)
                   ELSE DetectPattern(in, q.cache, probes \o q.probes, trials,
                                      combined_text))

\* lines 460-566: everything after the oracle tier
DetectSampled(in, c, probes) ==
    LET s == SampleAll(in.samples, 1)
        combined_text == JoinSpace(s.texts)
    IN Entered("sampled",
         IF combined_text # <<>>
         THEN DetectStatistical(in, c, probes, s.calls, combined_text)
         ELSE IF s.texts = <<>>
         THEN DetectFallback(in, c, probes, s.calls)
         ELSE DetResult(DEFAULT_LANG, "default", c, probes, s.calls))

\* the body of the outer try; lines 423-458 are the oracle tier, whose own
\* handler swallows every exception raised inside it
DetectBodyMut(in, c) ==
    IF ~in.key
    THEN DetectSampled(in, c, <<>>)
    ELSE Entered("oracle",
           IF in.gem \in NoAnswer
           THEN DetectSampled(in, c, <<>>)
           ELSE LET q == ProbeCode("oracle", in.gem, c)
                IN DetectSampled(in, q.cache, q.probes))
DetectBody(in, c) ==
    IF ~in.key
    THEN DetectSampled(in, c, <<>>)
    ELSE Entered("oracle",
           IF in.gem \in NoAnswer
           THEN DetectSampled(in, c, <<>>)
           ELSE LET q == ProbeCode("oracle", in.gem, c)
                IN IF q.ok
                   THEN DetResult(q.lang, "oracle", q.cache, q.probes, 0)
                   ELSE DetectSampled(in, q.cache, q.probes))

\* the outer handler: `except Exception: return default_lang`
DetectHandler(r) ==
    IF r.raised
    THEN [r EXCEPT !.raised = FALSE, !.ret = DEFAULT_LANG]
    ELSE r

\* detect_ocr_language(image_path)
detect_ocr_language(in, c) == DetectHandler(DetectBody(in, c))

(***************************************************************************)
(* Inputs of the cascade.                                                  *)
(***************************************************************************)
Text(t) == [raise |-> FALSE, text |-> t]
Raises == [raise |-> TRUE, text |-> <<>>]

TMixed  == <<Run("H", 24), Run("W", 1), Run("L", 6)>>
TMixed2 == <<Run("W", 2), Run("H", 20), Run("W", 1), Run("L", 10), Run("W", 1)>>
TLatin  == <<Run("L", 25)>>
TDigits == <<Run("D", 25)>>
TShort  == <<Run("W", 1), Run("L", 20)>>

SampleTexts == {TMixed2, TLatin, TDigits}

\* what one sample language returns at the two page segmentation modes
SamplePattern(kind, t) ==
    CASE kind = "a"  -> <<Text(t), Text(t)>>
      [] kind = "sa" -> <<Text(TShort), Text(t)>>
      [] kind = "ra" -> <<Raises, Text(t)>>
      [] kind = "rr" -> <<Raises, Raises>>
      [] kind = "ss" -> <<Text(TShort), Text(<<>>)>>

AcceptingPatterns == {<<"a", "a", "a", "a">>, <<"sa", "rr", "ra", "ss">>}
EmptyPatterns == {<<"ss", "rr", "ss", "rr">>}

SamplesOf(pat, t) == [l \in 1..4 |-> SamplePattern(pat[l], t)]

SampleInputs ==
    {[samples |-> SamplesOf(pat, t), fbRead |-> "ok", fbText |-> <<>>] :
        pat \in AcceptingPatterns, t \in SampleTexts}
    \cup
    {[samples |-> SamplesOf(pat, TShort), fbRead |-> f[1], fbText |-> f[2]] :
        pat \in EmptyPatterns,
        f \in {<<"none", <<>> >>, <<"raise", <<>> >>, <<"ok", <<>> >>,
               <<"ok", TLatin>>}}

OracleInputs ==
    {[key |-> FALSE, gem |-> "fail"]}
    \cup {[key |-> TRUE, gem |-> g] : g \in {"raise", "ko", "xx"}}

DetectorInputs ==
    {[hasDet |-> FALSE, stat |-> "fail"]}
    \cup {[hasDet |-> TRUE, stat |-> d] : d \in {"raise", "fail", "en", "ja"}}

DetectInputs ==
    {[key |-> o.key, gem |-> o.gem, samples |-> s.samples,
      hasDet |-> d.hasDet, stat |-> d.stat, fbRead |-> s.fbRead,
      fbText |-> s.fbText] :
        o \in OracleInputs, s \in SampleInputs, d \in DetectorInputs}

(***************************************************************************)
(* State.                                                                  *)
(***************************************************************************)
ProbeTrace(p) ==
    [key |-> p.key, val |-> p.val, raised |-> p.raised, queried |-> p.queried]

Traces(ps) == [i \in 1..Len(ps) |-> ProbeTrace(ps[i])]

\* the probes of a cascade, each with the tier that made it
DetTraces(ps) ==
    [i \in 1..Len(ps) |->
        [key |-> ps[i].key, val |-> ps[i].val, raised |-> ps[i].raised,
         queried |-> ps[i].queried, tier |-> ps[i].tier]]

NoDet == [ret |-> None, raised |-> FALSE, tier |-> "none", probes |-> <<>>,
          trials |-> 0, tiers |-> <<>>, failed |-> "none"]
NoPre == [outcome |-> "none"]
NoEv == [outcome |-> "none"]
NoPipe == [outcome |-> "none"]
NoPrb == [outcome |-> "none", returned |-> {}]
NoConc == [outcome |-> "none"]
NoCln == [outcome |-> "none"]
NoDsk == [outcome |-> "none"]

\* the environments a process can start in
Environments ==
    {<<"ok", "ok", ListingOf(<<eng, osd>>)>>,
     <<"ok", "ok", ListingOf(<<eng, kor, osd>>)>>,
     <<"notfound", "ok", ListingOf(<<>>)>>,
     <<"ok", "oserr", ListingOf(<<eng, kor, osd>>)>>}

InitIn(envs) ==
    /\ \E e \in envs : engine = e[1] /\ listMode = e[2] /\ listing = e[3]
    /\ cache = <<>>
    /\ op = "none"
    /\ det = NoDet
    /\ pre = NoPre
    /\ ev = NoEv
    /\ pipe = NoPipe
    /\ prb = NoPrb
    /\ conc = NoConc
    /\ cln = NoCln /\ dsk = NoDsk

\* a call of detect_ocr_language
DetectCall ==
    \E in \in DetectInputs :
        \E r \in {detect_ocr_language(in, cache)} :
           /\ cache' = r.cache
           /\ det' = [ret |-> r.ret, raised |-> r.raised, tier |-> r.tier,
                      probes |-> DetTraces(r.probes), trials |-> r.trials,
                      tiers |-> r.tiers, failed |-> r.failed]
           /\ op' = "detect"
           /\ UNCHANGED <<dsk, prb, conc, cln, engine, listMode, listing, pre, ev, pipe>>

Init == InitIn(Environments)

NextDetect == DetectCall

SpecDetect == Init /\ [][NextDetect]_vars

\* C1: detect_ocr_language never raises, and what it returns is the default
\* 'kor+eng' or a configuration that check_tesseract_availability reported
\* as (engine installed, language pack installed) in this call.
C1_DetectReturnsUsable ==
    op = "detect" =>
        /\ ~det.raised
        /\ \/ det.ret = DEFAULT_LANG
           \/ \E i \in 1..Len(det.probes) :
                  /\ det.probes[i].key = <<det.ret>>
                  /\ ~det.probes[i].raised
                  /\ det.probes[i].val = <<TRUE, TRUE>>

\* a validated candidate other than the default was returned
C1_Witness ==
    /\ op = "detect"
    /\ det.ret # DEFAULT_LANG
    /\ det.tier \in {"statistical", "pattern"}

\* the position of a tier in the cascade
TierRank(tier) ==
    CASE tier = "oracle" -> 1
      [] tier = "sampled" -> 2
      [] tier = "statistical" -> 3
      [] tier = "pattern" -> 4
      [] tier = "fallback" -> 5

\* the probe reported the language pack of its configuration installed
Validated(p) == ~p.raised /\ p.val[2]

\* C14: the tiers are entered in the order oracle, sampled trial
\* recognition, statistical detector, character-frequency count; the first
\* candidate the probe reports installed is returned, no tier is entered
\* after it, and no trial recognition runs after a validated oracle answer.
C14_FirstValidatedTierWins ==
    op = "detect" =>
        /\ \A i, j \in 1..Len(det.tiers) :
              i < j => TierRank(det.tiers[i]) < TierRank(det.tiers[j])
        /\ \A i \in 1..Len(det.probes) :
              Validated(det.probes[i]) =>
                 /\ i = Len(det.probes)
                 /\ det.ret = det.probes[i].key[1]
                 /\ det.tier = det.probes[i].tier
                 /\ det.tier = det.tiers[Len(det.tiers)]
        /\ \A i \in 1..Len(det.probes) :
              (Validated(det.probes[i]) /\ det.probes[i].tier = "oracle") =>
                 /\ det.trials = 0
                 /\ det.tiers = <<"oracle">>

\* the oracle's candidate was validated and returned without a trial
C14_Witness ==
    /\ op = "detect"
    /\ det.tier = "oracle"
    /\ det.probes # <<>> /\ Validated(det.probes[1])
    /\ det.probes[1].tier = "oracle"
    /\ det.trials = 0
    /\ det.ret = det.probes[1].key[1]

\* C19: an exception inside the statistical tier (in the detector or in the
\* probe of its candidate) only skips that tier: the character-frequency
\* tier still runs.
C19_TierFailureAdvances ==
    (op = "detect" /\ det.failed = "statistical") =>
        "pattern" \in SeqToSet(det.tiers)

(***************************************************************************)
(* preprocess_image.  An image value is a term: the source image, its      *)
(* size <<width, height>> and the transforms applied to it, in order.      *)
(* `in` holds: exists (os.path.exists), loadable (cv2.imread gives an      *)
(* image), dims (the size of the loaded image) and fails (the named        *)
(* transform steps that raise in this call).                               *)
(***************************************************************************)
Max2(a, b) == IF a >= b THEN a ELSE b

\* lines 340-344: int(width * scale_factor), int(height * scale_factor)
TargetDims(dims) ==
    LET width == dims[1]
        height == dims[2]
        m == Max2(height, width)
    IN IF m > MAX_IMAGE_DIMENSION
       THEN << (width * MAX_IMAGE_DIMENSION) \div m,
               (height * MAX_IMAGE_DIMENSION) \div m >>
       ELSE dims

\* cv2.resize rejects an empty target size
ResizeRaises(dims) ==
    /\ Max2(dims[1], dims[2]) > MAX_IMAGE_DIMENSION
    /\ (TargetDims(dims)[1] <= 0 \/ TargetDims(dims)[2] <= 0)

Image(dims, ops) == [dims |-> dims, ops |-> ops]

\* one assignment `var = fn(arg)` of lines 347-408; wrapped: fn catches its
\* own exceptions and returns its argument; append: var is appended to
\* preprocessed_images right after
Stmt(var, fn, arg, wrapped, append) ==
    [var |-> var, fn |-> fn, arg |-> arg, wrapped |-> wrapped, append |-> append]

PreprocessProgram ==
    << Stmt("gray", "cvtColor", "img", FALSE, TRUE),
       Stmt("gray_blur", "GaussianBlur", "gray", FALSE, FALSE),
       Stmt("binary", "threshold", "gray_blur", FALSE, TRUE),
       Stmt("segmented", "segment_text_by_color", "img", TRUE, FALSE),
       Stmt("segmented_gray", "cvtColor", "segmented", FALSE, FALSE),
       Stmt("segmented_binary", "threshold", "segmented_gray", FALSE, TRUE),
       Stmt("adaptive_binary", "adaptiveThreshold", "gray", FALSE, TRUE),
       Stmt("enhanced", "equalizeHist", "gray", FALSE, FALSE),
       Stmt("enhanced_binary", "threshold", "enhanced", FALSE, TRUE),
       Stmt("clahe_img", "clahe", "gray", FALSE, FALSE),
       Stmt("clahe_binary", "threshold", "clahe_img", FALSE, TRUE),
       Stmt("sharpened", "filter2D", "gray", FALSE, FALSE),
       Stmt("sharp_binary", "threshold", "sharpened", FALSE, TRUE),
       Stmt("denoised", "fastNlMeansDenoising", "gray", FALSE, FALSE),
       Stmt("denoised_binary", "threshold", "denoised", FALSE, TRUE),
       Stmt("opening", "morphologyEx", "binary", FALSE, TRUE),
       Stmt("deskewed", "deskew_image", "gray", TRUE, FALSE),
       Stmt("deskewed_binary", "threshold", "deskewed", FALSE, TRUE),
       Stmt("improved_denoised", "remove_noise_improved", "gray", TRUE, TRUE),
       Stmt("enhanced_img", "enhance_image_quality", "gray", TRUE, FALSE),
       Stmt("enhanced_quality_binary", "threshold", "enhanced_img", FALSE, TRUE),
       Stmt("deskewed_denoised", "remove_noise_improved", "deskewed", TRUE, TRUE) >>

StepNames == {PreprocessProgram[i].var : i \in 1..Len(PreprocessProgram)}

\* the value a statement assigns; a wrapped helper that fails returns its
\* argument unchanged
StmtValue(st, argval, fails) ==
    IF st.var \in fails THEN argval
    ELSE Image(argval.dims, Append(argval.ops, st.fn))

\* runs the statements from the i-th on; binds maps the variables assigned
\* so far to their values
RECURSIVE RunProgram(_, _, _, _)
RunProgram(i, binds, out, fails) ==
    IF i > Len(PreprocessProgram) THEN [raised |-> FALSE, images |-> out]
    ELSE LET st == PreprocessProgram[i]
             v == StmtValue(st, binds[st.arg], fails)
         IN IF st.var \in fails /\ ~st.wrapped
            THEN [raised |-> TRUE, images |-> out]
            ELSE RunProgram(i + 1,
                            [x \in (DOMAIN binds) \cup {st.var} |->
                                IF x = st.var THEN v ELSE binds[x]],
                            IF st.append THEN Append(out, v) ELSE out,
                            fails)

PreReturn(images) ==
    [outcome |-> "returned", exc |-> "none", images |-> images]
PreRaise(exc) == [outcome |-> "raised", exc |-> exc, images |-> <<>>]

\* the body of the try block, lines 324-410
PreprocessBody(in) ==
    IF ~in.exists THEN PreRaise("FileNotFoundError")
    ELSE IF ~in.loadable THEN PreRaise("ValueError")
    ELSE IF ResizeRaises(in.dims) THEN PreRaise("cv2.error")
    ELSE LET img == Image(TargetDims(in.dims), <<>>)
             r == RunProgram(1, [x \in {"img"} |-> img], <<>>, in.fails)
         IN IF r.raised THEN PreRaise("cv2.error") ELSE PreReturn(r.images)

\* preprocess_image(image_path) with the handlers of lines 412-416: a
\* ValueError is re-raised, every other exception leaves as a RuntimeError
preprocess_image(in) ==
    LET r == PreprocessBody(in)
    IN IF r.outcome = "raised" /\ r.exc # "ValueError"
       THEN PreRaise("RuntimeError")
       ELSE r

\* the grayscale conversion of the (downscaled) input
GrayOf(dims) == Image(TargetDims(dims), <<"cvtColor">>)

(***************************************************************************)
(* Inputs of the variant generator.                                        *)
(***************************************************************************)
ImageSizes ==
    {<<800, 600>>, <<2000, 2000>>, <<2001, 1500>>, <<4000, 3000>>,
     <<1, 5000>>, <<5000, 1>>, <<3, 5000>>}

FailSets == {{}} \cup {{x} : x \in StepNames}

PreprocessInputs ==
    {[exists |-> FALSE, loadable |-> FALSE, dims |-> <<800, 600>>, fails |-> {}],
     [exists |-> TRUE, loadable |-> FALSE, dims |-> <<800, 600>>, fails |-> {}]}
    \cup {[exists |-> TRUE, loadable |-> TRUE, dims |-> d, fails |-> f] :
             d \in ImageSizes, f \in FailSets}

\* a call of preprocess_image
PreprocessCall ==
    \E in \in PreprocessInputs :
        \E r \in {preprocess_image(in)} :
           /\ pre' = [in |-> in, outcome |-> r.outcome, exc |-> r.exc,
                      images |-> r.images,
                      target |-> IF in.exists /\ in.loadable
                                 THEN TargetDims(in.dims) ELSE None]
           /\ op' = "preprocess"
           /\ UNCHANGED <<dsk, prb, conc, cln, engine, listMode, listing, cache, det, ev, pipe>>

NextPre == PreprocessCall

SpecPre == Init /\ [][NextPre]_vars

\* C8: once the image is loaded preprocess_image does not raise; it returns
\* every slot of the sequence, and a slot whose transform failed holds the
\* unmodified base image.
C8_NoRaiseOnceLoaded ==
    (op = "preprocess" /\ pre.in.exists /\ pre.in.loadable) =>
        LET full == preprocess_image([pre.in EXCEPT !.fails = {}, !.dims = <<800, 600>>]).images
        IN /\ pre.outcome = "returned"
           /\ Len(pre.images) = Len(full)
           /\ \A k \in 1..Len(pre.images) :
                  \/ pre.images[k].ops = full[k].ops
                  \/ pre.images[k] = GrayOf(pre.in.dims)

\* C9: for a loadable non-empty image whose transforms all succeed,
\* preprocess_image returns a non-empty sequence whose first element is the
\* grayscale conversion of the downscaled input.
C9_FirstIsGrayscale ==
    (op = "preprocess" /\ pre.in.exists /\ pre.in.loadable /\ pre.in.fails = {}) =>
        /\ pre.outcome = "returned"
        /\ Len(pre.images) >= 1
        /\ pre.images[1] = GrayOf(pre.in.dims)

\* C29: for every image whose larger dimension exceeds MAX_IMAGE_DIMENSION,
\* both target dimensions that preprocess_image computes for the downscale
\* are at least 1 and at most MAX_IMAGE_DIMENSION.
C29_DownscaleTargetInRange ==
    (op = "preprocess" /\ pre.in.exists /\ pre.in.loadable
       /\ Max2(pre.in.dims[1], pre.in.dims[2]) > MAX_IMAGE_DIMENSION) =>
        /\ pre.target[1] >= 1 /\ pre.target[1] <= MAX_IMAGE_DIMENSION
        /\ pre.target[2] >= 1 /\ pre.target[2] <= MAX_IMAGE_DIMENSION

(***************************************************************************)
(* Exact rationals for the floating-point values of the score.             *)
(***************************************************************************)
Abs(x) == IF x < 0 THEN -x ELSE x

RECURSIVE GCD(_, _)
GCD(a, b) == IF b = 0 THEN a ELSE GCD(b, a % b)

Rat(n, d) ==
    LET g == GCD(Abs(n), d)
    IN IF n = 0 THEN [n |-> 0, d |-> 1] ELSE [n |-> n \div g, d |-> d \div g]

RZero == Rat(0, 1)
ROne == Rat(1, 1)
RAdd(a, b) == Rat(a.n * b.d + b.n * a.d, a.d * b.d)
RMul(a, b) == Rat(a.n * b.n, a.d * b.d)
RLe(a, b) == a.n * b.d <= b.n * a.d
RLt(a, b) == a.n * b.d < b.n * a.d
RMin(a, b) == IF RLe(a, b) THEN a ELSE b

(***************************************************************************)
(* evaluate_preprocessing_quality.  `in` holds: images, lang, and for the  *)
(* i-th image cases[i] = [std, raise, text, confs]: np.std of the image,   *)
(* where the trial recognition raises ("none", "imwrite", "string",        *)
(* "data"), the text of image_to_string and the 'conf' column of           *)
(* image_to_data.  A cell of that column is [str, v]: the string or the    *)
(* number v.                                                               *)
(***************************************************************************)
StrCell(v) == [str |-> TRUE, v |-> v]
NumCell(v) == [str |-> FALSE, v |-> v]

RECURSIVE ConfScores(_)
\* [int(conf) for conf in ocr_data['conf'] if conf != '-1']
ConfScores(cells) ==
    IF cells = <<>> THEN <<>>
    ELSE IF Head(cells).str /\ Head(cells).v = -1
    THEN ConfScores(Tail(cells))
    ELSE <<Head(cells).v>> \o ConfScores(Tail(cells))

RECURSIVE Sum(_)
Sum(xs) == IF xs = <<>> THEN 0 ELSE Head(xs) + Sum(Tail(xs))

\* sum(conf_scores) / len(conf_scores) if conf_scores else 0
AvgConfidence(cells) ==
    LET conf_scores == ConfScores(cells)
    IN IF conf_scores = <<>> THEN RZero
       ELSE Rat(Sum(conf_scores), Len(conf_scores))

\* korean_chars / total_chars if total_chars > 0 else 0
KoreanRatio(ocr_result) ==
    LET korean_chars == CountClass(ocr_result, "H")
        total_chars == TextLen(ocr_result) - CountClass(ocr_result, "W")
    IN IF total_chars > 0 THEN Rat(korean_chars, total_chars) ELSE RZero

\* weight_korean = korean_ratio * OCRConfig.KOREAN_RATIO_WEIGHT
WeightKorean(ocr_result) ==
    RMul(KoreanRatio(ocr_result), Rat(KOREAN_RATIO_WEIGHT, 1))

\* `if 'kor' in lang:` (line 644): which weighting the score uses
ScriptWeighted(lang) == IsSubstring(kor, lang)

\* lines 628-652: total_score of one variant
TotalScore(ocr_result, cells, std, lang) ==
    LET text_length == TextLen(Strip(ocr_result))
        weight_length == RMin(ROne, Rat(text_length, 100))
        weight_confidence == RMul(AvgConfidence(cells), Rat(1, 100))
        contrast_score == RMin(ROne, Rat(std, 80))
        total_score ==
            IF ScriptWeighted(lang)
            THEN RAdd(RAdd(RMul(weight_length, Rat(3, 10)),
                           RMul(weight_confidence, Rat(3, 10))),
                      RAdd(RMul(WeightKorean(ocr_result), Rat(3, 10)),
                           RMul(contrast_score, Rat(1, 10))))
            ELSE RAdd(RAdd(RMul(weight_length, Rat(4, 10)),
                           RMul(weight_confidence, Rat(4, 10))),
                      RMul(contrast_score, Rat(2, 10)))
    IN IF text_length < MIN_TEXT_LENGTH
       THEN RMul(total_score, Rat(1, 2)) ELSE total_score

\* the entry appended to image_scores for one image; a failure anywhere in
\* the loop body is recorded with score 0
ScoreEntry(case, lang) ==
    IF case.raise # "none"
    THEN [score |-> RZero, error |-> TRUE, avg_confidence |-> RZero,
          weighting |-> "none",
          writes |-> IF case.raise = "imwrite" THEN 0 ELSE 1,
          trials |-> CASE case.raise = "imwrite" -> 0
                       [] case.raise = "string" -> 1
                       [] OTHER -> 2]
    ELSE [score |-> TotalScore(case.text, case.confs, case.std, lang),
          error |-> FALSE, avg_confidence |-> AvgConfidence(case.confs),
          weighting |-> IF ScriptWeighted(lang) THEN "script" ELSE "plain",
          writes |-> 1, trials |-> 2]

ImageScoresMut(cases, lang) ==
    LET failing == {i \in 1..Len(cases) : cases[i].raise # "none"}
        n == IF failing = {} THEN Len(cases)
             ELSE CHOOSE i \in failing : \A j \in failing : i <= j
    IN [i \in 1..n |-> ScoreEntry(cases[i], lang)]
\* `for i, img in enumerate(images):` (lines 621-671): image_scores after
\* the loop, one entry per image
ImageScores(cases, lang) ==
    [i \in 1..Len(cases) |-> ScoreEntry(cases[i], lang)]

\* max(image_scores, key=lambda x: x['score'])['index'], 1-based: the first
\* entry that no other entry exceeds
BestIndexMut(entries) ==
    CHOOSE i \in 1..Len(entries) :
        /\ \A j \in 1..Len(entries) : RLe(entries[j].score, entries[i].score)
        /\ \A j \in (i + 1)..Len(entries) : RLt(entries[j].score, entries[i].score)
BestIndex(entries) ==
    CHOOSE i \in 1..Len(entries) :
        /\ \A j \in 1..Len(entries) : RLe(entries[j].score, entries[i].score)
        /\ \A j \in 1..(i - 1) : RLt(entries[j].score, entries[i].score)

EvResult(outcome, index, best, score, reason, entries, p) ==
    [outcome |-> outcome, index |-> index, best |-> best, score |-> score,
     reason |-> reason, entries |-> entries, cache |-> p.cache, probes |-> <<p>>]

\* `tesseract_installed, _ = check_tesseract_availability(lang)` followed by
\* `if not tesseract_installed: return images[0], {... "score": 0}`
EngineMissingMut(p) == FALSE
EngineMissing(p) == ~p.val[1]

\* evaluate_preprocessing_quality(images, lang)
evaluate_preprocessing_quality(in, c) ==
    LET p == check_tesseract_availability(<<in.lang>>, c)
        entries == ImageScores(in.cases, in.lang)
        best_index == BestIndex(entries)
    IN IF in.images = <<>>
       THEN [outcome |-> "raised", index |-> 0, best |-> None, score |-> RZero,
             reason |-> "ValueError", entries |-> <<>>, cache |-> c,
             probes |-> <<>>]
       ELSE IF p.raised
       THEN EvResult("raised", 0, None, RZero, "probe", <<>>, p)
       ELSE IF EngineMissing(p)
       THEN EvResult("returned", 1, in.images[1], RZero,
                     "tesseract_not_installed", <<>>, p)
       ELSE EvResult("returned", best_index, in.images[best_index],
                     entries[best_index].score, "best", entries, p)

\* the calls of pytesseract and of cv2.imwrite that one evaluation made
EvTrials(entries) == Sum([i \in 1..Len(entries) |-> entries[i].trials])
EvWrites(entries) == Sum([i \in 1..Len(entries) |-> entries[i].writes])

(***************************************************************************)
(* Inputs of the evaluator.                                                *)
(***************************************************************************)
MaxVariants == 2

Case(std, raise, text, confs) ==
    [std |-> std, raise |-> raise, text |-> text, confs |-> confs]

VariantCases ==
    { Case(80, "none", <<Run("H", 100)>>, <<NumCell(100)>>),
      Case(40, "none", <<Run("L", 50)>>, <<StrCell(-1), NumCell(90), NumCell(70)>>),
      Case(0, "none", <<>>, <<NumCell(-1)>>),
      Case(40, "string", <<>>, <<>>) }

\* the variants of a 800 x 600 image whose transforms all succeed
SampleVariants ==
    preprocess_image([exists |-> TRUE, loadable |-> TRUE, dims |-> <<800, 600>>,
                      fails |-> {}]).images

EvalLangs == {Plus(kor, eng), eng}

EvaluateInputs ==
    UNION {{[images |-> SubSeq(SampleVariants, 1, n), lang |-> l, cases |-> cs] :
              l \in EvalLangs, cs \in [1..n -> VariantCases]} : n \in 1..MaxVariants}

\* a call of evaluate_preprocessing_quality
EvaluateCall ==
    \E in \in EvaluateInputs :
        \E r \in {evaluate_preprocessing_quality(in, cache)} :
           /\ cache' = r.cache
           /\ ev' = [in |-> in, outcome |-> r.outcome, index |-> r.index,
                     best |-> r.best, score |-> r.score, reason |-> r.reason,
                     entries |-> r.entries, probes |-> Traces(r.probes),
                     trials |-> EvTrials(r.entries),
                     writes |-> EvWrites(r.entries)]
           /\ op' = "evaluate"
           /\ UNCHANGED <<dsk, prb, conc, cln, engine, listMode, listing, det, pre, pipe>>

EvalEnvironments ==
    {<<"ok", "ok", ListingOf(<<eng, kor, osd>>)>>,
     <<"notfound", "ok", ListingOf(<<>>)>>,
     <<"error", "ok", ListingOf(<<>>)>>}

InitEval == InitIn(EvalEnvironments)

NextEval == EvaluateCall

SpecEval == InitEval /\ [][NextEval]_vars

InUnit(x) == RLe(RZero, x) /\ RLe(x, ROne)

\* C5: the score returned by evaluate_preprocessing_quality and every
\* per-variant score lie in [0,1] whenever the mean confidences lie in
\* [0,100].
C5_ScoresInUnitInterval ==
    (op = "evaluate" /\ ev.outcome = "returned"
       /\ \A i \in 1..Len(ev.entries) :
             /\ RLe(RZero, ev.entries[i].avg_confidence)
             /\ RLe(ev.entries[i].avg_confidence, Rat(100, 1))) =>
        /\ InUnit(ev.score)
        /\ \A i \in 1..Len(ev.entries) : InUnit(ev.entries[i].score)

C7_SkippedWhenEngineMissing ==
    (op = "evaluate" /\ ev.probes # <<>> /\ ~ev.probes[1].raised
       /\ ~ev.probes[1].val[1]) =>
        /\ ev.outcome = "returned"
        /\ ev.best = ev.in.images[1]
        /\ ev.score = RZero
        /\ ev.trials = 0
        /\ ev.writes = 0

\* the engine is reported missing for a sequence of several variants
C7_Witness ==
    /\ op = "evaluate" /\ ev.probes # <<>> /\ ~ev.probes[1].raised
    /\ ~ev.probes[1].val[1]
    /\ Len(ev.in.images) > 1
    /\ ev.outcome = "returned"

(***************************************************************************)
(* The score of one evaluation: the sequence of variants, what the trial   *)
(* recognition of each does and the language configuration are drawn when  *)
(* the process starts, and one call evaluates them.                        *)
(***************************************************************************)
ScoreCases ==
    VariantCases \cup
    { Case(40, "imwrite", <<>>, <<>>),
      Case(40, "data", <<Run("L", 50)>>, <<>>),
      Case(120, "none", <<Run("W", 1), Run("H", 3), Run("W", 1), Run("L", 3)>>,
           <<NumCell(50), NumCell(60)>>) }

ScoreLangs == {Plus(kor, eng), eng, Plus(eng, kor), kor, jpn}

ScoreInputs ==
    UNION {{[images |-> SubSeq(SampleVariants, 1, n), lang |-> l, cases |-> cs] :
              l \in ScoreLangs, cs \in [1..n -> ScoreCases]} : n \in 1..MaxVariants}

\* the call of evaluate_preprocessing_quality on the drawn input
ScoreCall ==
    /\ ev.outcome = "input"
    /\ \E r \in {evaluate_preprocessing_quality(ev.in, cache)} :
           /\ cache' = r.cache
           /\ ev' = [in |-> ev.in, outcome |-> r.outcome, index |-> r.index,
                     best |-> r.best, score |-> r.score, reason |-> r.reason,
                     entries |-> r.entries, probes |-> Traces(r.probes),
                     trials |-> EvTrials(r.entries),
                     writes |-> EvWrites(r.entries)]
           /\ op' = "evaluate"
           /\ UNCHANGED <<dsk, prb, conc, cln, engine, listMode, listing, det, pre, pipe>>

ScoreEnvironments ==
    {<<"ok", "ok", ListingOf(<<eng, jpn, kor, osd>>)>>,
     <<"ok", "ok", ListingOf(<<eng, osd>>)>>}

InitScore ==
    /\ \E e \in ScoreEnvironments :
          engine = e[1] /\ listMode = e[2] /\ listing = e[3]
    /\ cache = <<>>
    /\ op = "none"
    /\ det = NoDet
    /\ pre = NoPre
    /\ \E in \in ScoreInputs : ev = [outcome |-> "input", in |-> in]
    /\ pipe = NoPipe
    /\ prb = NoPrb
    /\ conc = NoConc
    /\ cln = NoCln /\ dsk = NoDsk

NextScore == ScoreCall

SpecScore == InitScore /\ [][NextScore]_vars

\* the first component of a language configuration
PrimaryScript(lang) == Split(lang, "+")[1]

\* the documented score of one variant: lengthTerm, confidenceTerm,
\* scriptRatio and contrastTerm weighted 0.3/0.3/0.3/0.1 for a configuration
\* with the dedicated-weight script and 0.4/0.4/0.2 otherwise, halved below
\* the minimum useful length
DocumentedScore(case, lang) ==
    LET textLength == TextLen(Strip(case.text))
        lengthTerm == RMin(ROne, Rat(textLength, 100))
        confidenceTerm == RMul(AvgConfidence(case.confs), Rat(1, 100))
        nonWhitespace == TextLen(case.text) - CountClass(case.text, "W")
        scriptRatio == Rat(CountClass(case.text, "H"),
                           IF nonWhitespace > 1 THEN nonWhitespace ELSE 1)
        contrastTerm == RMin(ROne, Rat(case.std, 80))
        score ==
            IF PrimaryScript(lang) = kor
            THEN RAdd(RAdd(RMul(lengthTerm, Rat(3, 10)),
                           RMul(confidenceTerm, Rat(3, 10))),
                      RAdd(RMul(scriptRatio, Rat(3, 10)),
                           RMul(contrastTerm, Rat(1, 10))))
            ELSE RAdd(RAdd(RMul(lengthTerm, Rat(4, 10)),
                           RMul(confidenceTerm, Rat(4, 10))),
                      RMul(contrastTerm, Rat(2, 10)))
    IN IF textLength < MIN_TEXT_LENGTH THEN RMul(score, Rat(1, 2)) ELSE score

\* C21: for every variant whose trial recognition succeeds, the score that
\* evaluate_preprocessing_quality computes equals the documented formula.
C21_ScoreIsDocumentedFormula ==
    (op = "evaluate" /\ ev.outcome = "returned" /\ ev.reason = "best") =>
        \A i \in 1..Len(ev.entries) :
            ~ev.entries[i].error =>
                ev.entries[i].score = DocumentedScore(ev.in.cases[i], ev.in.lang)

\* C22: the script-weighted formula is selected if and only if the first
\* component of the language configuration is kor; a configuration with
\* another first component gets the 0.4/0.4/0.2 formula, also when kor is a
\* later component.
C22_ScriptFormulaIffPrimaryKor ==
    (op = "evaluate" /\ ev.outcome = "returned" /\ ev.reason = "best") =>
        \A i \in 1..Len(ev.entries) :
            ~ev.entries[i].error =>
                (ev.entries[i].weighting = "script"
                    <=> PrimaryScript(ev.in.lang) = kor)

\* the variants of the evaluated sequence whose trial recognition fails
FailedVariants == {i \in 1..Len(ev.in.cases) : ev.in.cases[i].raise # "none"}

Token(text, conf, block_num, line_num, left, top, width, height) ==
    [nan |-> FALSE, text |-> text, conf |-> conf, block_num |-> block_num,
     line_num |-> line_num, left |-> left, top |-> top, width |-> width,
     height |-> height]

NaNToken(conf, block_num, line_num, left, top, width, height) ==
    [nan |-> TRUE, text |-> <<>>, conf |-> conf, block_num |-> block_num,
     line_num |-> line_num, left |-> left, top |-> top, width |-> width,
     height |-> height]

\* the characters str.strip() removes and the regular expression \s
\* matches; "U+00A0" is the no-break space
WhitespaceChars == {" ", "\n", "\t", "\r", "U+00A0"}

RECURSIVE LStripChars(_)
LStripChars(t) ==
    IF t # <<>> /\ Head(t) \in WhitespaceChars THEN LStripChars(Tail(t)) ELSE t

RECURSIVE RStripChars(_)
RStripChars(t) ==
    IF t # <<>> /\ t[Len(t)] \in WhitespaceChars
    THEN RStripChars(SubSeq(t, 1, Len(t) - 1)) ELSE t

\* str.strip() on a string of characters
StripChars(t) == RStripChars(LStripChars(t))

RECURSIVE JoinChars(_, _)
\* sep.join(strings)
JoinChars(strings, sep) ==
    IF strings = <<>> THEN <<>>
    ELSE IF Len(strings) = 1 THEN strings[1]
    ELSE strings[1] \o sep \o JoinChars(Tail(strings), sep)

RECURSIVE Unique(_, _)
\* Series.unique(): the distinct values in order of first appearance
Unique(xs, seen) ==
    IF xs = <<>> THEN <<>>
    ELSE IF Head(xs) \in seen THEN Unique(Tail(xs), seen)
    ELSE <<Head(xs)>> \o Unique(Tail(xs), seen \cup {Head(xs)})

Column(rows, f) == [i \in 1..Len(rows) |-> rows[i][f]]

SeqMin(xs) == CHOOSE x \in SeqToSet(xs) : \A y \in SeqToSet(xs) : x <= y
SeqMax(xs) == CHOOSE x \in SeqToSet(xs) : \A y \in SeqToSet(xs) : x >= y

\* dropna(subset=['text']) and the filter text.str.strip() != ''
HasText(t) == ~t.nan /\ StripChars(t.text) # <<>>
TextRows(tokens) == SelectSeq(tokens, HasText)

\* the lines of one block: for each line_num of block_df, the joined texts
BlockLines(block_df) ==
    LET nums == Unique(Column(block_df, "line_num"), {})
        LineText(k) ==
            LET InLine(t) == t.line_num = nums[k]
            IN JoinChars(Column(SelectSeq(block_df, InLine), "text"), <<" ">>)
        IsText(x) == StripChars(x) # <<>>
    IN SelectSeq([k \in 1..Len(nums) |-> LineText(k)], IsText)

\* block_info of one block (lines 783-799 and 1100-1116)
BlockInfoMut(block_df) ==
    LET left == SeqMin(Column(block_df, "left"))
        top == SeqMin(Column(block_df, "top"))
        right == SeqMin(Column(block_df, "left")) + SeqMax(Column(block_df, "width"))
        bottom == SeqMin(Column(block_df, "top")) + SeqMax(Column(block_df, "height"))
    IN [text |-> JoinChars(BlockLines(block_df), <<"\n">>),
        rect |-> [x |-> left, y |-> top, width |-> right - left,
                  height |-> bottom - top],
        confidence |-> Rat(Sum(Column(block_df, "conf")), Len(block_df))]
BlockInfo(block_df) ==
    LET left == SeqMin(Column(block_df, "left"))
        top == SeqMin(Column(block_df, "top"))
        right == SeqMax(Column(block_df, "left")) + SeqMax(Column(block_df, "width"))
        bottom == SeqMax(Column(block_df, "top")) + SeqMax(Column(block_df, "height"))
    IN [text |-> JoinChars(BlockLines(block_df), <<"\n">>),
        rect |-> [x |-> left, y |-> top, width |-> right - left,
                  height |-> bottom - top],
        confidence |-> Rat(Sum(Column(block_df, "conf")), Len(block_df))]

\* result['blocks'] for the rows that have text
RECURSIVE BlocksFrom(_, _)
BlocksFrom(rows, nums) ==
    IF nums = <<>> THEN <<>>
    ELSE LET InBlock(t) == t.block_num = Head(nums)
             Confident(t) == t.conf > CONFIDENCE_THRESHOLD
             block_df == SelectSeq(SelectSeq(rows, InBlock), Confident)
         IN IF block_df = <<>> \/ BlockLines(block_df) = <<>>
            THEN BlocksFrom(rows, Tail(nums))
            ELSE <<BlockInfo(block_df)>> \o BlocksFrom(rows, Tail(nums))

Blocks(rows) == BlocksFrom(rows, Unique(Column(rows, "block_num"), {}))

FullTextMut(rows) ==
    LET Confident(t) == t.conf > CONFIDENCE_THRESHOLD
    IN JoinChars(Column(SelectSeq(rows, Confident), "text"), <<" ">>)
\* ' '.join(tesseract_data['text'].tolist())
FullText(rows) == JoinChars(Column(rows, "text"), <<" ">>)

\* the `result` dictionary
LayoutResult(full_text, blocks) ==
    [kind |-> "dict", full_text |-> full_text, blocks |-> blocks]

\* the dictionary extract_text_with_layout starts from (lines 1040-1043)
EmptyResult == LayoutResult(<<>>, <<>>)

\* the string process_image returns from its handler (line 809)
ErrorString == [kind |-> "error", full_text |-> <<>>, blocks |-> <<>>]

\* the text of the external oracle that process_image returns (line 714)
OracleText == [kind |-> "oracle_text", full_text |-> <<"t">>, blocks |-> <<>>]

(***************************************************************************)
(* The two pipelines.  A run is [outcome, result, stage, finalCalled,      *)
(* finalLang, cache, probes]; stage names the statement that ended it.     *)
(***************************************************************************)
Run_(outcome, result, stage, finalLang, c, probes) ==
    [outcome |-> outcome, result |-> result, stage |-> stage,
     finalCalled |-> finalLang # None, finalLang |-> finalLang,
     cache |-> c, probes |-> probes, detected |-> FALSE]

\* the run r called detect_ocr_language (line 721)
Detected(r) == [r EXCEPT !.detected = TRUE]

Raised(stage, finalLang, c, probes) ==
    Run_("raised", EmptyResult, stage, finalLang, c, probes)

Returned(result, stage, finalLang, c, probes) ==
    Run_("returned", result, stage, finalLang, c, probes)

\* `except Exception as e: ...; return value`
CaughtMut(r, value) == r
Caught(r, value) ==
    IF r.outcome = "raised"
    THEN [r EXCEPT !.outcome = "returned", !.result = value]
    ELSE r

\* lines 724-732 of process_image
ValidateLang(lang) ==
    IF "+" \in SeqToSet(lang)
    THEN LET languages == Split(lang, "+")
         IN IF \E i \in 1..Len(languages) : languages[i] \notin SUPPORTED_LANGUAGES
            THEN DEFAULT_LANG ELSE lang
    ELSE IF lang \notin SUPPORTED_LANGUAGES THEN DEFAULT_LANG ELSE lang

\* lines 743-805 of process_image: the final pass and `return result`
ProcessFinal(in, lang, tesseract_installed, c, probes, rows) ==
    IF ~tesseract_installed
    THEN \* `return result` with result unbound
         Raised("unbound", None, c, probes)
    ELSE IF in.final.raise THEN Raised("final", lang, c, probes)
    ELSE IF rows = <<>>
    THEN \* `return result` with result unbound
         Raised("unbound", lang, c, probes)
    ELSE Returned(LayoutResult(FullText(rows), Blocks(rows)), "final", lang,
                  c, probes)

\* lines 741-805 of process_image, e the outcome of the quality evaluation
ProcessEvaluated(in, lang, tesseract_installed, probes, e) ==
    IF e.outcome = "raised"
    THEN Raised("evaluate", None, e.cache, probes \o e.probes)
    ELSE ProcessFinal(in, lang, tesseract_installed, e.cache,
                      probes \o e.probes, TextRows(in.final.tokens))

\* lines 739-805 of process_image, pr the outcome of preprocess_image
ProcessPreprocessed(in, lang, tesseract_installed, c, probes, pr) ==
    IF pr.outcome = "raised" THEN Raised("preprocess", None, c, probes)
    ELSE CHOOSE r \in
           {ProcessEvaluated(in, lang, tesseract_installed, probes, e) :
              e \in {evaluate_preprocessing_quality(
                        [images |-> pr.images, lang |-> lang,
                         cases |-> [i \in 1..Len(pr.images) |-> in.case]], c)}} :
           TRUE

\* lines 724-805 of process_image, from the language on
ProcessFrom(in, lang0, tesseract_installed, c, probes) ==
    CHOOSE r \in
      {ProcessPreprocessed(in, lang, tesseract_installed, c, probes, pr) :
         lang \in {COMMON_LANGUAGE_COMBINATIONS(ValidateLang(lang0))},
         pr \in {preprocess_image(in.pre)}} :
      TRUE

\* lines 720-805 of process_image, d the outcome of detect_ocr_language
ProcessDetected(in, p, d) ==
    IF d.raised THEN Raised("detect", None, d.cache, <<p>> \o d.probes)
    ELSE ProcessFrom(in, d.ret, p.val[1], d.cache, <<p>> \o d.probes)

\* lines 707-805 of process_image, p the outcome of the probe
ProcessProbed(in, p) ==
    IF p.raised THEN Raised("probe", None, p.cache, <<p>>)
    ELSE IF ~p.val[1] /\ in.gemText = "text"
    THEN Returned(OracleText, "oracle", None, p.cache, <<p>>)
    ELSE IF in.lang = None
    THEN Detected(CHOOSE r \in {ProcessDetected(in, p, d) :
                                  d \in {detect_ocr_language(in.det, p.cache)}} : TRUE)
    ELSE ProcessFrom(in, in.lang, p.val[1], p.cache, <<p>>)

\* the body of the try block of process_image
ProcessBody(in, c) ==
    IF ~in.exists THEN Raised("file", None, c, <<>>)
    ELSE IF in.empty THEN Raised("file", None, c, <<>>)
    ELSE CHOOSE r \in {ProcessProbed(in, p) :
                         p \in {check_tesseract_availability(<<>>, c)}} : TRUE

\* process_image(image_path, lang)
process_image(in, c) == Caught(ProcessBody(in, c), ErrorString)

\* lines 1051-1053: `if not lang_installed and 'kor' in lang: lang = 'eng'`
LayoutLang(lang, lang_installed) ==
    IF ~lang_installed /\ IsSubstring(kor, lang) THEN eng ELSE lang

\* lines 1063-1120 of extract_text_with_layout: the final pass and the blocks
LayoutFinal(in, lang, c, probes, rows) ==
    IF in.final.raise THEN Raised("final", lang, c, probes)
    ELSE IF rows = <<>>
    THEN Returned(EmptyResult, "final", lang, c, probes)
    ELSE Returned(LayoutResult(FullText(rows), Blocks(rows)), "final", lang,
                  c, probes)

\* lines 1061-1120, e the outcome of the quality evaluation
LayoutEvaluated(in, lang, p, e) ==
    IF e.outcome = "raised"
    THEN Raised("evaluate", None, e.cache, <<p>> \o e.probes)
    ELSE LayoutFinal(in, lang, e.cache, <<p>> \o e.probes,
                     TextRows(in.final.tokens))

\* lines 1059-1120, pr the outcome of preprocess_image
LayoutPreprocessed(in, lang, p, pr) ==
    IF pr.outcome = "raised" THEN Raised("preprocess", None, p.cache, <<p>>)
    ELSE CHOOSE r \in
           {LayoutEvaluated(in, lang, p, e) :
              e \in {evaluate_preprocessing_quality(
                        [images |-> pr.images, lang |-> lang,
                         cases |-> [i \in 1..Len(pr.images) |-> in.case]],
                        p.cache)}} :
           TRUE

\* lines 1046-1120, p the outcome of the probe
LayoutProbed(in, p) ==
    IF p.raised THEN Raised("probe", None, p.cache, <<p>>)
    ELSE IF ~p.val[1] THEN Raised("engine", None, p.cache, <<p>>)
    ELSE IF ~in.pre.exists \/ ~in.pre.loadable
    THEN Raised("imread", None, p.cache, <<p>>)
    ELSE CHOOSE r \in
           {LayoutPreprocessed(in, lang, p, pr) :
              lang \in {LayoutLang(in.lang, p.val[2])},
              pr \in {preprocess_image(in.pre)}} :
           TRUE

\* the body of the try block of extract_text_with_layout
LayoutBody(in, c) ==
    CHOOSE r \in {LayoutProbed(in, p) :
                    p \in {check_tesseract_availability(<<in.lang>>, c)}} : TRUE

\* extract_text_with_layout(image_path, lang)
extract_text_with_layout(in, c) == Caught(LayoutBody(in, c), EmptyResult)

(***************************************************************************)
(* Inputs of the pipelines: a base run and the runs that differ from it in *)
(* one collaborator.                                                       *)
(***************************************************************************)
PreOK == [exists |-> TRUE, loadable |-> TRUE, dims |-> <<800, 600>>, fails |-> {}]

PreInputs ==
    {PreOK,
     [PreOK EXCEPT !.loadable = FALSE],
     [PreOK EXCEPT !.dims = <<1, 5000>>],
     [PreOK EXCEPT !.fails = {"adaptive_binary"}],
     [PreOK EXCEPT !.fails = {"deskewed"}]}

CaseOK == Case(40, "none", <<Run("L", 50)>>, <<StrCell(-1), NumCell(90), NumCell(70)>>)
CaseRaise == Case(40, "string", <<>>, <<>>)

TokensText ==
    << NaNToken(-1, 1, 0, 0, 0, 200, 100),
       Token(<<"a", "b">>, 96, 1, 1, 10, 10, 30, 12),
       Token(<<"c">>, 20, 1, 1, 50, 10, 10, 12),
       Token(<<" ">>, 95, 1, 1, 60, 10, 5, 12),
       Token(<<"d">>, 30, 2, 1, 10, 60, 10, 12),
       Token(<<"e", "f">>, 80, 1, 2, 5, 30, 20, 12) >>

TokensBlank == << NaNToken(-1, 1, 0, 0, 0, 200, 100), Token(<<" ">>, 95, 1, 1, 60, 10, 5, 12) >>

FinalOK == [raise |-> FALSE, tokens |-> TokensText]

FinalInputs ==
    {FinalOK, [raise |-> FALSE, tokens |-> TokensBlank],
     [raise |-> TRUE, tokens |-> <<>>]}

DetNone ==
    [key |-> FALSE, gem |-> "fail", samples |-> SamplesOf(<<"rr", "rr", "rr", "rr">>, TShort),
     hasDet |-> FALSE, stat |-> "fail", fbRead |-> "raise", fbText |-> <<>>]

PipeDetectInputs ==
    {DetNone,
     [DetNone EXCEPT !.key = TRUE, !.gem = "ko"],
     [DetNone EXCEPT !.samples = SamplesOf(<<"a", "a", "a", "a">>, TLatin)],
     [DetNone EXCEPT !.samples = SamplesOf(<<"a", "a", "a", "a">>, TLatin),
                     !.hasDet = TRUE, !.stat = "raise"]}

ProcessBase ==
    [exists |-> TRUE, empty |-> FALSE, lang |-> None, gemText |-> "raise",
     det |-> DetNone, pre |-> PreOK, case |-> CaseOK, final |-> FinalOK]

ProcessInputs ==
    {[ProcessBase EXCEPT !.exists = FALSE], [ProcessBase EXCEPT !.empty = TRUE],
     [ProcessBase EXCEPT !.gemText = "text"],
     [ProcessBase EXCEPT !.case = CaseRaise]}
    \cup {[ProcessBase EXCEPT !.det = d] : d \in PipeDetectInputs}
    \cup {[ProcessBase EXCEPT !.lang = l] : l \in {auto, jpn}}
    \cup {[ProcessBase EXCEPT !.pre = x] : x \in PreInputs}
    \cup {[ProcessBase EXCEPT !.final = f] : f \in FinalInputs}

LayoutBase ==
    [lang |-> DEFAULT_LANG, pre |-> PreOK, case |-> CaseOK, final |-> FinalOK]

LayoutInputs ==
    {[LayoutBase EXCEPT !.case = CaseRaise]}
    \cup {[LayoutBase EXCEPT !.lang = l] : l \in {DEFAULT_LANG, jpn}}
    \cup {[LayoutBase EXCEPT !.pre = x] : x \in PreInputs}
    \cup {[LayoutBase EXCEPT !.final = f] : f \in FinalInputs}

PipeState(fn, lang, r) ==
    [fn |-> fn, lang |-> lang, outcome |-> r.outcome, result |-> r.result,
     stage |-> r.stage, finalCalled |-> r.finalCalled, finalLang |-> r.finalLang,
     probes |-> Traces(r.probes), detected |-> r.detected]

\* a call of process_image
ProcessImageCall ==
    \E in \in ProcessInputs :
        \E r \in {process_image(in, cache)} :
           /\ cache' = r.cache
           /\ pipe' = PipeState("process_image", in.lang, r)
           /\ op' = "process_image"
           /\ UNCHANGED <<dsk, prb, conc, cln, engine, listMode, listing, det, pre, ev>>

\* a call of extract_text_with_layout
ExtractLayoutCall ==
    \E in \in LayoutInputs :
        \E r \in {extract_text_with_layout(in, cache)} :
           /\ cache' = r.cache
           /\ pipe' = PipeState("extract_text_with_layout", in.lang, r)
           /\ op' = "extract_text_with_layout"
           /\ UNCHANGED <<dsk, prb, conc, cln, engine, listMode, listing, det, pre, ev>>

PipeEnvironments ==
    {<<"ok", "ok", ListingOf(<<eng, osd>>)>>,
     <<"ok", "ok", ListingOf(<<eng, kor, osd>>)>>,
     <<"notfound", "ok", ListingOf(<<>>)>>,
     <<"error", "ok", ListingOf(<<>>)>>}

InitPipe == InitIn(PipeEnvironments)

NextPipe == ProcessImageCall \/ ExtractLayoutCall

SpecPipe == InitPipe /\ [][NextPipe]_vars

PipelineRan == op \in {"process_image", "extract_text_with_layout"}

\* the probe reported the language pack of lang installed during the run
ReportedInstalled(lang) ==
    \E i \in 1..Len(pipe.probes) :
        /\ ~pipe.probes[i].raised
        /\ pipe.probes[i].val[2]
        /\ \/ pipe.probes[i].key = <<lang>>
           \/ pipe.probes[i].key = <<>> /\ lang = DEFAULT_LANG

\* C2: the language handed to the final recognition pass was reported
\* installed by check_tesseract_availability or is the default 'kor+eng'.
C2_FinalLangProbed ==
    (PipelineRan /\ pipe.finalCalled) =>
        (pipe.finalLang = DEFAULT_LANG \/ ReportedInstalled(pipe.finalLang))

\* C3: when the probe reports the engine not installed, what
\* extract_text_with_layout returns differs from what it returns for an
\* image in which recognition ran and found no text (EmptyResult).
C3_EngineMissingIsExplicit ==
    (op = "extract_text_with_layout" /\ ~pipe.probes[1].raised
       /\ ~pipe.probes[1].val[1]) =>
        pipe.result # EmptyResult

\* C4: when the probe reports the requested language pack not installed,
\* extract_text_with_layout ends in a failure without running the final
\* recognition pass, in particular not with another language pack.
C4_MissingPackIsTerminal ==
    (op = "extract_text_with_layout" /\ ~pipe.probes[1].raised
       /\ pipe.probes[1].val = <<TRUE, FALSE>>) =>
        /\ ~pipe.finalCalled
        /\ pipe.result.full_text = <<>>

\* C18: process_image called with the language "auto" runs
\* detect_ocr_language, as it does when called without a language.
C18_AutoTriggersDetection ==
    (op = "process_image" /\ pipe.lang = auto
       /\ pipe.stage \notin {"file", "probe", "oracle"}) =>
        pipe.detected

\* C10: process_image and extract_text_with_layout return a value whichever
\* stage fails.
C10_PipelinesReturn ==
    PipelineRan => pipe.outcome = "returned"

\* a stage after the file check raised and the pipeline returned a value
C10_Witness ==
    /\ PipelineRan
    /\ pipe.stage \in {"preprocess", "final", "probe", "unbound"}
    /\ pipe.outcome = "returned"
    /\ pipe.result \in {ErrorString, EmptyResult}

(***************************************************************************)
(* Two calls of evaluate_preprocessing_quality running concurrently.  Both *)
(* use the file temp_eval.png next to processor.py (line 619).  A step is  *)
(* one call that touches the file or the cache: the probe, cv2.imwrite,    *)
(* image_to_string, image_to_data, os.path.exists, os.remove.              *)
(* conc.file is the file: present, the image in it, and which call wrote   *)
(* which of its variants.  conc.th[t] is call t: pc, the index i of the    *)
(* variant in work, the text image_to_string read, image_scores, whether   *)
(* every read so far read the variant this call wrote, and the result.     *)
(***************************************************************************)
Threads == {1, 2}

NoImage == Case(0, "none", <<>>, <<>>)
NoFile == [present |-> FALSE, img |-> NoImage, by |-> 0, idx |-> 0]

\* the variants of two different images with the text recognised in each
ConcInputs ==
    { [lang |-> Plus(kor, eng),
       images |-> << << Case(80, "none", <<Run("H", 100)>>, <<NumCell(100)>>),
                        Case(0, "none", <<>>, <<NumCell(-1)>>) >>,
                     << Case(40, "none", <<Run("L", 50)>>, <<NumCell(90), NumCell(70)>>),
                        Case(40, "none", <<Run("L", 5)>>, <<NumCell(20)>>) >> >>],
      [lang |-> eng,
       images |-> << << Case(40, "none", <<Run("L", 50)>>, <<NumCell(90)>>) >>,
                     << Case(80, "none", <<Run("L", 120)>>, <<NumCell(95)>>),
                        Case(0, "none", <<>>, <<NumCell(-1)>>) >> >>] }

ConcThread ==
    [pc |-> "probe", i |-> 1, text |-> <<>>, entries |-> <<>>, own |-> TRUE,
     outcome |-> "none", index |-> 0, score |-> RZero, reason |-> "none"]

ConcStart(in) ==
    [outcome |-> "running", lang |-> in.lang, images |-> in.images,
     file |-> NoFile, th |-> [t \in Threads |-> ConcThread]]

\* the entry of the `except Exception` of the loop body (lines 665-671)
ErrorEntry ==
    [score |-> RZero, error |-> TRUE, avg_confidence |-> RZero,
     writes |-> 1, trials |-> 1]

\* `return images[...], {...}` of call t
ConcReturn(th, outcome, index, score, reason) ==
    [th EXCEPT !.pc = "done", !.outcome = outcome, !.index = index,
               !.score = score, !.reason = reason]

\* the end of the loop body: the next variant, or the clean-up of line 673
ConcAdvance(th, entry, n) ==
    [th EXCEPT !.entries = Append(th.entries, entry),
               !.i = IF th.i < n THEN th.i + 1 ELSE th.i,
               !.pc = IF th.i < n THEN "write" ELSE "exists"]

\* lines 676-684 of call t
ConcSelect(th) ==
    ConcReturn(th, "returned", BestIndex(th.entries),
               th.entries[BestIndex(th.entries)].score, "best")

ConcSet(t, th, file) ==
    /\ conc' = [conc EXCEPT !.th[t] = th, !.file = file]
    /\ op' = "concurrent"
    /\ UNCHANGED <<dsk, engine, listMode, listing, det, pre, ev, pipe, prb, cln>>

\* line 610 and the early return of lines 611-613
ConcProbe(t) ==
    /\ conc.th[t].pc = "probe"
    /\ \E p \in {check_tesseract_availability(<<conc.lang>>, cache)} :
          /\ cache' = p.cache
          /\ ConcSet(t, IF p.raised
                        THEN ConcReturn(conc.th[t], "raised", 0, RZero, "probe")
                        ELSE IF EngineMissing(p)
                        THEN ConcReturn(conc.th[t], "returned", 1, RZero,
                                        "tesseract_not_installed")
                        ELSE [conc.th[t] EXCEPT !.pc = "write"],
                     conc.file)

\* line 623: cv2.imwrite(temp_file, img)
ConcWrite(t) ==
    /\ conc.th[t].pc = "write"
    /\ ConcSet(t, [conc.th[t] EXCEPT !.pc = "string"],
               [present |-> TRUE, img |-> conc.images[t][conc.th[t].i],
                by |-> t, idx |-> conc.th[t].i])
    /\ UNCHANGED cache

\* line 625: image_to_string(temp_file), which fails when the file is gone
ConcString(t) ==
    /\ conc.th[t].pc = "string"
    /\ ConcSet(t, IF ~conc.file.present
                  THEN ConcAdvance(conc.th[t], ErrorEntry, Len(conc.images[t]))
                  ELSE [conc.th[t] EXCEPT
                          !.pc = "data", !.text = conc.file.img.text,
                          !.own = @ /\ conc.file.by = t
                                    /\ conc.file.idx = conc.th[t].i],
               conc.file)
    /\ UNCHANGED cache

\* lines 626-661: image_to_data(temp_file) and the score of the variant
ConcData(t) ==
    /\ conc.th[t].pc = "data"
    /\ ConcSet(t, IF ~conc.file.present
                  THEN ConcAdvance(conc.th[t], ErrorEntry, Len(conc.images[t]))
                  ELSE ConcAdvance(
                         [conc.th[t] EXCEPT
                            !.own = @ /\ conc.file.by = t
                                      /\ conc.file.idx = conc.th[t].i],
                         [score |-> TotalScore(conc.th[t].text, conc.file.img.confs,
                                               conc.images[t][conc.th[t].i].std,
                                               conc.lang),
                          error |-> FALSE,
                          avg_confidence |-> AvgConfidence(conc.file.img.confs),
                          writes |-> 1, trials |-> 2],
                         Len(conc.images[t])),
               conc.file)
    /\ UNCHANGED cache

\* line 673: os.path.exists(temp_file)
ConcExists(t) ==
    /\ conc.th[t].pc = "exists"
    /\ ConcSet(t, IF conc.file.present
                  THEN [conc.th[t] EXCEPT !.pc = "remove"]
                  ELSE ConcSelect(conc.th[t]),
               conc.file)
    /\ UNCHANGED cache

\* line 674: os.remove(temp_file); FileNotFoundError is handled at line 686
ConcRemove(t) ==
    /\ conc.th[t].pc = "remove"
    /\ ConcSet(t, IF conc.file.present
                  THEN ConcSelect(conc.th[t])
                  ELSE ConcReturn(conc.th[t], "returned", 1, RZero,
                                  "evaluation_error"),
               NoFile)
    /\ UNCHANGED cache

ConcEnvironments ==
    {<<"ok", "ok", ListingOf(<<eng, kor, osd>>)>>,
     <<"notfound", "ok", ListingOf(<<>>)>>}

InitConc ==
    /\ \E e \in ConcEnvironments :
          engine = e[1] /\ listMode = e[2] /\ listing = e[3]
    /\ cache = <<>>
    /\ op = "none"
    /\ det = NoDet /\ pre = NoPre /\ ev = NoEv /\ pipe = NoPipe
    /\ prb = NoPrb /\ cln = NoCln /\ dsk = NoDsk
    /\ \E in \in ConcInputs : conc = ConcStart(in)

NextConc ==
    \E t \in Threads :
        \/ ConcProbe(t)
        \/ ConcWrite(t)
        \/ ConcString(t)
        \/ ConcData(t)
        \/ ConcExists(t)
        \/ ConcRemove(t)

SpecConc == InitConc /\ [][NextConc]_vars

\* what call t returns when it runs alone
AloneEntries(t) ==
    [i \in 1..Len(conc.images[t]) |-> ScoreEntry(conc.images[t][i], conc.lang)]

\* C11: under every interleaving of two evaluations of different images,
\* every trial recognition reads the variant its own call wrote, and each
\* call returns the best variant and the score it returns when run alone.
C11_NoInterference ==
    \A t \in Threads :
        (op = "concurrent" /\ conc.th[t].pc = "done"
           /\ conc.th[t].reason # "tesseract_not_installed") =>
            /\ conc.th[t].own
            /\ conc.th[t].outcome = "returned"
            /\ conc.th[t].index = BestIndex(AloneEntries(t))
            /\ conc.th[t].score = AloneEntries(t)[BestIndex(AloneEntries(t))].score

(***************************************************************************)
(* Direct calls of check_tesseract_availability.  prb is the last call:    *)
(* its key, its outcome, whether it queried the engine, whether the key    *)
(* had returned before (known) and with which value (first), and the set   *)
(* of <<key, value>> pairs returned so far.                                *)
(***************************************************************************)
ProbeKeys == {<<>>, <<kor>>, <<Plus(kor, eng)>>, <<jpn>>}

ProbeEnvironments ==
    {<<"ok", "ok", l>> : l \in Listings}
    \cup {<<"notfound", "ok", ListingOf(<<>>)>>,
          <<"error", "ok", ListingOf(<<>>)>>,
          <<"ok", "suberr", ListingOf(<<eng, kor, osd>>)>>,
          <<"ok", "oserr", ListingOf(<<eng, kor, osd>>)>>}

\* the value a key returned first, None when it has not returned
FirstReturn(returned, key) ==
    IF \E x \in returned : x[1] = key
    THEN (CHOOSE x \in returned : x[1] = key)[2]
    ELSE None

\* the record of a call with result r
ProbeState(r) ==
    [outcome |-> IF r.raised THEN "raised" ELSE "returned",
     key |-> r.key, val |-> r.val, queried |-> r.queried,
     known |-> \E x \in prb.returned : x[1] = r.key,
     first |-> FirstReturn(prb.returned, r.key),
     returned |-> IF r.raised \/ (\E x \in prb.returned : x[1] = r.key)
                  THEN prb.returned
                  ELSE prb.returned \cup {<<r.key, r.val>>}]

\* a call check_tesseract_availability(*key)
ProbeCall(key) ==
    \E r \in {check_tesseract_availability(key, cache)} :
       /\ cache' = r.cache
       /\ prb' = ProbeState(r)
       /\ op' = "probe"
       /\ UNCHANGED <<dsk, engine, listMode, listing, det, pre, ev, pipe, conc, cln>>

InitProbe == InitIn(ProbeEnvironments)

NextProbe == \E key \in ProbeKeys : ProbeCall(key)

SpecProbe == InitProbe /\ [][NextProbe]_vars

\* C12: check_tesseract_availability never raises, however the version
\* query or the pack listing fails, and returns (false, false) when the
\* engine cannot be executed.
C12_ProbeNeverRaises ==
    op = "probe" =>
        /\ prb.outcome = "returned"
        /\ (engine = "notfound" => prb.val = <<FALSE, FALSE>>)

\* the names of the packs in the output of `tesseract --list-langs`: its
\* lines after the header line
InstalledPacks(output) ==
    SeqToSet(Tail(Split(output, "\n"))) \ {<<>>}

\* the language the call with this key probes
KeyLang(key) == IF key = <<>> THEN DEFAULT_LANG ELSE key[1]

\* C20: the probe reports the language pack installed exactly when every
\* '+'-separated component of the configuration is the name of a pack the
\* engine lists.
C20_InstalledIffEveryPackListed ==
    (op = "probe" /\ prb.outcome = "returned" /\ prb.queried
       /\ engine = "ok" /\ listMode = "ok") =>
        (prb.val[2] <=>
           \A comp \in SeqToSet(Split(KeyLang(prb.key), "+")) :
               comp \in InstalledPacks(listing))

(***************************************************************************)
(* A process that probes many configurations: the call without arguments   *)
(* (as process_image makes it) at any time, and one new configuration      *)
(* after the other.                                                        *)
(***************************************************************************)
\* the number of distinct configurations probed besides the default call
MaxFill == 33

LanguageList ==
    <<kor, eng, jpn, chi_sim, chi_tra, deu, fra, spa, rus, ita, por, ara,
      hin, vie, tha>>

\* the n-th configuration: the single packs, then the pairs
FillKey(n) ==
    IF n <= Len(LanguageList) THEN <<LanguageList[n]>>
    ELSE <<Plus(LanguageList[((n - Len(LanguageList) - 1) \div Len(LanguageList)) + 1],
                LanguageList[((n - Len(LanguageList) - 1) % Len(LanguageList)) + 1])>>

\* the configurations probed so far
Filled == Cardinality({x \in prb.returned : x[1] # <<>>})

\* check_tesseract_availability()
ProbeDefaultCall == ProbeCall(<<>>)

\* check_tesseract_availability(lang) for a configuration not probed before
ProbeFillCall ==
    /\ Filled < MaxFill
    /\ ProbeCall(FillKey(Filled + 1))

FillEnvironments ==
    {<<"ok", "ok", ListingOf(<<eng, kor, osd>>)>>,
     <<"ok", "suberr", ListingOf(<<eng, kor, osd>>)>>,
     <<"notfound", "ok", ListingOf(<<>>)>>}

InitFill == InitIn(FillEnvironments)

NextFill == ProbeDefaultCall \/ ProbeFillCall

SpecFill == InitFill /\ [][NextFill]_vars

\* C13: a call with a key that has returned before returns the same value
\* and does not query the engine, however many other keys were probed in
\* between.
C13_MemoizedForProcessLifetime ==
    (op = "probe" /\ prb.known) =>
        /\ prb.outcome = "returned"
        /\ prb.val = prb.first
        /\ ~prb.queried

(***************************************************************************)
(* clean_ocr_text.  A character is a one-character string or the name of   *)
(* its code point: "U+00A0" no-break space, "U+FF0C" full-width comma,     *)
(* "U+2026" horizontal ellipsis, "U+0301" combining acute accent,          *)
(* "U+00E1" the letter a with acute.                                       *)
(***************************************************************************)
RECURSIVE NFC(_)
\* unicodedata.normalize('NFC', text): a base letter and the combining
\* accent that follows it become the precomposed letter
NFC(t) ==
    IF t = <<>> THEN <<>>
    ELSE IF Len(t) >= 2 /\ t[1] = "a" /\ t[2] = "U+0301"
    THEN <<"U+00E1">> \o NFC(SubSeq(t, 3, Len(t)))
    ELSE <<Head(t)>> \o NFC(Tail(t))

RECURSIVE ReplaceCRLF(_)
\* re.sub(r'\r\n', '\n', text)
ReplaceCRLF(t) ==
    IF t = <<>> THEN <<>>
    ELSE IF Len(t) >= 2 /\ t[1] = "\r" /\ t[2] = "\n"
    THEN <<"\n">> \o ReplaceCRLF(SubSeq(t, 3, Len(t)))
    ELSE <<Head(t)>> \o ReplaceCRLF(Tail(t))

RECURSIVE WhitespaceRun(_)
\* the length of the run of whitespace t starts with
WhitespaceRun(t) ==
    IF t # <<>> /\ Head(t) \in WhitespaceChars THEN 1 + WhitespaceRun(Tail(t)) ELSE 0

RECURSIVE CollapseSpaces(_)
\* re.sub(r'\s{2,}', ' ', text)
CollapseSpaces(t) ==
    IF t = <<>> THEN <<>>
    ELSE IF WhitespaceRun(t) >= 2
    THEN <<" ">> \o CollapseSpaces(SubSeq(t, WhitespaceRun(t) + 1, Len(t)))
    ELSE <<Head(t)>> \o CollapseSpaces(Tail(t))

\* replacements.get(ch, ch) for the table of lines 825-850; no replacement
\* contains a key of the table, so the loop of lines 852-854 maps each
\* character on its own
FoldMut(ch) ==
    CASE ch = "U+00A0" -> <<" ", " ">>
      [] OTHER -> <<ch>>
Fold(ch) ==
    CASE ch = "U+FF0C" -> <<",">>
      [] ch = "U+FF0E" -> <<".">>
      [] ch = "U+FF1A" -> <<":">>
      [] ch = "U+FF1B" -> <<";">>
      [] ch = "U+FF01" -> <<"!">>
      [] ch = "U+FF1F" -> <<"?">>
      [] ch = "U+2018" -> <<"'">>
      [] ch = "U+2019" -> <<"'">>
      [] ch = "U+201C" -> <<"\"">>
      [] ch = "U+201D" -> <<"\"">>
      [] ch = "U+2013" -> <<"-">>
      [] ch = "U+2014" -> <<"-">>
      [] ch = "U+00A0" -> <<" ">>
      [] ch = "U+2026" -> <<".", ".", ".">>
      [] ch = "U+2024" -> <<".">>
      [] ch = "U+00B7" -> <<"U+2022">>
      [] ch = "U+02DC" -> <<"~">>
      [] OTHER -> <<ch>>

RECURSIVE ReplaceAll(_)
\* lines 852-854
ReplaceAll(t) == IF t = <<>> THEN <<>> ELSE Fold(Head(t)) \o ReplaceAll(Tail(t))

NonEmpty(line) == line # <<>>

\* lines 856-862: the stripped, non-empty lines joined with '\n'
CleanLines(t) ==
    LET lines == Split(t, "\n")
        stripped == [i \in 1..Len(lines) |-> StripChars(lines[i])]
    IN JoinChars(SelectSeq(stripped, NonEmpty), <<"\n">>)

\* processor.clean_ocr_text(text)
clean_ocr_textMut(text) ==
    IF text = <<>> THEN <<>>
    ELSE CleanLines(ReplaceAll(StripChars(ReplaceCRLF(NFC(text)))))
clean_ocr_text(text) ==
    IF text = <<>> THEN <<>>
    ELSE CleanLines(ReplaceAll(CollapseSpaces(StripChars(ReplaceCRLF(NFC(text))))))

NotBlank(line) == StripChars(line) # <<>>

\* utils.clean_ocr_text(text)
utils_clean_ocr_text(text) ==
    IF text = <<>> THEN <<>>
    ELSE JoinChars(SelectSeq(Split(CollapseSpaces(StripChars(ReplaceCRLF(text))),
                                   "\n"), NotBlank), <<"\n">>)

\* the longest input string
MaxTextLen == 4

CleanAlphabet == {"a", " ", "\n", "\r", "U+00A0", "U+FF0C", "U+2026", "U+0301"}

CleanInputs == UNION {[1..n -> CleanAlphabet] : n \in 0..MaxTextLen}

\* text = clean_ocr_text(text) in both modules, at most twice
CleanCall ==
    /\ cln.calls < 2
    /\ cln' = [in |-> cln.in, calls |-> cln.calls + 1,
               prev |-> cln.out, out |-> clean_ocr_text(cln.out),
               uprev |-> cln.uout, uout |-> utils_clean_ocr_text(cln.uout)]
    /\ op' = "clean"
    /\ UNCHANGED <<dsk, engine, listMode, listing, cache, det, pre, ev, pipe, prb, conc>>

InitClean ==
    /\ engine = "ok" /\ listMode = "ok" /\ listing = ListingOf(<<eng, kor, osd>>)
    /\ cache = <<>>
    /\ op = "none"
    /\ det = NoDet /\ pre = NoPre /\ ev = NoEv /\ pipe = NoPipe
    /\ prb = NoPrb /\ conc = NoConc /\ dsk = NoDsk
    /\ \E x \in CleanInputs :
          cln = [in |-> x, calls |-> 0, prev |-> x, out |-> x,
                 uprev |-> x, uout |-> x]

NextClean == CleanCall

SpecClean == InitClean /\ [][NextClean]_vars

\* C15: clean_ocr_text(clean_ocr_text(x)) = clean_ocr_text(x) for every
\* string x, in processor.py and in utils.py.
C15_CleanIdempotent ==
    (op = "clean" /\ cln.calls = 2) =>
        /\ cln.out = cln.prev
        /\ cln.uout = cln.uprev

\* a string with a CRLF, a no-break space or a folded character was cleaned
\* twice
C15_Witness ==
    /\ op = "clean" /\ cln.calls = 2
    /\ \E i \in 1..Len(cln.in) : cln.in[i] \in {"\r", "U+00A0", "U+2026"}
    /\ cln.prev # cln.in
    /\ cln.out # <<>>

\* C16: the result of clean_ocr_text has no leading or trailing whitespace,
\* no two consecutive whitespace characters and no empty line.
C16_CleanIsTrimmedAndCollapsed ==
    (op = "clean" /\ cln.calls = 1) =>
        /\ cln.out = StripChars(cln.out)
        /\ \A i \in 1..(Len(cln.out) - 1) :
              ~(cln.out[i] \in WhitespaceChars /\ cln.out[i + 1] \in WhitespaceChars)
        /\ (cln.out # <<>> =>
              \A i \in 1..Len(Split(cln.out, "\n")) :
                  StripChars(Split(cln.out, "\n")[i]) # <<>>)

\* a string with an interior run of whitespace was cleaned to a non-empty
\* string
C16_Witness ==
    /\ op = "clean" /\ cln.calls = 1
    /\ \E i \in 2..(Len(cln.in) - 2) :
          /\ cln.in[i] \in WhitespaceChars /\ cln.in[i + 1] \in WhitespaceChars
          /\ cln.in[1] = "a" /\ cln.in[Len(cln.in)] = "a"
    /\ Len(cln.out) = 3

(***************************************************************************)
(* The pipelines on data frames of the final pass that differ in the       *)
(* geometry, the block and the confidence of their tokens.  The frame is   *)
(* chosen initially and each pipeline runs on it.                          *)
(***************************************************************************)
\* the largest number of rows of the data frame
MaxTokens == 2

\* <<left, top, width, height>> of a token
TokenBoxes == {<<0, 0, 5, 5>>, <<10, 10, 30, 20>>, <<0, 10, 30, 5>>, <<10, 0, 5, 20>>}

TokenChoices ==
    {Token(<<"a">>, conf, block_num, 1, box[1], box[2], box[3], box[4]) :
        conf \in {20, 80}, block_num \in {1, 2}, box \in TokenBoxes}

TokenTables == UNION {[1..n -> TokenChoices] : n \in 1..MaxTokens}

FrameState(ps, tokens) ==
    [fn |-> ps.fn, lang |-> ps.lang, outcome |-> ps.outcome, result |-> ps.result,
     stage |-> ps.stage, finalCalled |-> ps.finalCalled,
     finalLang |-> ps.finalLang, probes |-> ps.probes,
     detected |-> ps.detected, tokens |-> tokens]

\* extract_text_with_layout(image_path) when the final pass yields the frame
ExtractFrameCall ==
    /\ pipe.outcome = "input"
    /\ \E r \in {extract_text_with_layout(
                    [LayoutBase EXCEPT !.final = [raise |-> FALSE,
                                                  tokens |-> pipe.tokens]], cache)} :
          /\ cache' = r.cache
          /\ pipe' = FrameState(PipeState("extract_text_with_layout",
                                          DEFAULT_LANG, r), pipe.tokens)
    /\ op' = "extract_text_with_layout"
    /\ UNCHANGED <<dsk, engine, listMode, listing, det, pre, ev, prb, conc, cln>>

\* process_image(image_path) when the final pass yields the frame
ProcessFrameCall ==
    /\ pipe.outcome = "input"
    /\ \E r \in {process_image(
                    [ProcessBase EXCEPT !.final = [raise |-> FALSE,
                                                   tokens |-> pipe.tokens]], cache)} :
          /\ cache' = r.cache
          /\ pipe' = FrameState(PipeState("process_image", None, r), pipe.tokens)
    /\ op' = "process_image"
    /\ UNCHANGED <<dsk, engine, listMode, listing, det, pre, ev, prb, conc, cln>>

InitFrame ==
    /\ engine = "ok" /\ listMode = "ok" /\ listing = ListingOf(<<eng, kor, osd>>)
    /\ cache = <<>>
    /\ op = "none"
    /\ det = NoDet /\ pre = NoPre /\ ev = NoEv
    /\ prb = NoPrb /\ conc = NoConc /\ cln = NoCln /\ dsk = NoDsk
    /\ \E t \in TokenTables : pipe = [outcome |-> "input", tokens |-> t]

NextFrame == ExtractFrameCall \/ ProcessFrameCall

SpecFrame == InitFrame /\ [][NextFrame]_vars

\* the tokens of block b that survive the filters: text present and not
\* blank, confidence above the threshold
Survivors(tokens, b) ==
    LET Kept(t) == HasText(t) /\ t.block_num = b /\ t.conf > CONFIDENCE_THRESHOLD
    IN SelectSeq(tokens, Kept)

\* the numbers of the blocks that have a surviving token, in order of first
\* appearance
EmittedNums(tokens) ==
    LET HasSurvivor(b) == Survivors(tokens, b) # <<>>
    IN SelectSeq(Unique(Column(TextRows(tokens), "block_num"), {}), HasSurvivor)

Contains(rect, t) ==
    /\ rect.x <= t.left
    /\ rect.y <= t.top
    /\ t.left + t.width <= rect.x + rect.width
    /\ t.top + t.height <= rect.y + rect.height

\* C17: every block a pipeline emits has a rectangle that contains the
\* rectangle of every surviving token of that block.
C17_BlockContainsItsTokens ==
    (PipelineRan /\ pipe.outcome = "returned" /\ pipe.result.kind = "dict") =>
        /\ Len(pipe.result.blocks) = Len(EmittedNums(pipe.tokens))
        /\ \A k \in 1..Len(pipe.result.blocks) :
              \A i \in 1..Len(Survivors(pipe.tokens, EmittedNums(pipe.tokens)[k])) :
                  Contains(pipe.result.blocks[k].rect,
                           Survivors(pipe.tokens, EmittedNums(pipe.tokens)[k])[i])

\* a block was emitted for two tokens at different places
C17_Witness ==
    /\ PipelineRan /\ pipe.outcome = "returned" /\ pipe.result.kind = "dict"
    /\ Len(pipe.result.blocks) = 1
    /\ Len(Survivors(pipe.tokens, EmittedNums(pipe.tokens)[1])) = 2
    /\ pipe.tokens[1].left # pipe.tokens[2].left
    /\ pipe.tokens[1].width # pipe.tokens[2].width

(***************************************************************************)
(* The pipelines on token streams that differ in the text, the confidence  *)
(* and the block of their tokens: tokens without text, blank tokens,       *)
(* tokens at, below and above the confidence threshold.  The wide token    *)
(* "a" starts left of the narrow token "b".                                *)
(***************************************************************************)
StreamChoices ==
    UNION {{Token(<<"a">>, 20, b, 1, 0, 0, 30, 5),
            Token(<<"a">>, CONFIDENCE_THRESHOLD, b, 1, 0, 0, 30, 5),
            Token(<<"a">>, 80, b, 1, 0, 0, 30, 5),
            Token(<<"b">>, 40, b, 1, 10, 10, 5, 20),
            Token(<<" ">>, 80, b, 1, 0, 0, 5, 5),
            NaNToken(80, b, 1, 0, 0, 5, 5)} : b \in {1, 2}}

TokenStreams == UNION {[1..n -> StreamChoices] : n \in 1..MaxTokens}

InitTokens ==
    /\ engine = "ok" /\ listMode = "ok" /\ listing = ListingOf(<<eng, kor, osd>>)
    /\ cache = <<>>
    /\ op = "none"
    /\ det = NoDet /\ pre = NoPre /\ ev = NoEv
    /\ prb = NoPrb /\ conc = NoConc /\ cln = NoCln /\ dsk = NoDsk
    /\ \E t \in TokenStreams : pipe = [outcome |-> "input", tokens |-> t]

NextTokens == ExtractFrameCall \/ ProcessFrameCall

SpecTokens == InitTokens /\ [][NextTokens]_vars

\* a pipeline returned the dictionary of its final pass
FinalPassReturned ==
    PipelineRan /\ pipe.outcome = "returned" /\ pipe.result.kind = "dict"

\* the tokens of block b that have text and a confidence at or above the
\* confidence floor
AtOrAboveFloor(tokens, b) ==
    LET Kept(t) == HasText(t) /\ t.block_num = b /\ t.conf >= CONFIDENCE_THRESHOLD
    IN SelectSeq(tokens, Kept)

\* the numbers of the blocks that have such a token, in order of first
\* appearance
BlocksAtOrAboveFloor(tokens) ==
    LET HasKept(b) == AtOrAboveFloor(tokens, b) # <<>>
    IN SelectSeq(Unique(Column(tokens, "block_num"), {}), HasKept)

\* C24: the tokens dropped from the blocks are exactly those without text
\* or with a confidence below CONFIDENCE_THRESHOLD: the result has one
\* block for each block number that has a token with text and a confidence
\* at or above the floor, its text is made of exactly those tokens, and a
\* block all of whose tokens were dropped is absent.
C24_DroppedExactlyBelowFloor ==
    FinalPassReturned =>
        /\ Len(pipe.result.blocks) = Len(BlocksAtOrAboveFloor(pipe.tokens))
        /\ \A k \in 1..Len(BlocksAtOrAboveFloor(pipe.tokens)) :
              k <= Len(pipe.result.blocks) =>
                pipe.result.blocks[k].text =
                    JoinChars(Column(AtOrAboveFloor(pipe.tokens,
                                BlocksAtOrAboveFloor(pipe.tokens)[k]), "text"),
                              <<" ">>)

\* the texts of the token stream before the confidence filter
TextsBeforeConfidence(tokens) == Column(SelectSeq(tokens, HasText), "text")

\* C25: full_text is the single-space join, in engine order, of the texts
\* of the token stream before the confidence filter, whatever the blocks
\* are; a token dropped from every block for its confidence is in it.
C25_FullTextIsUnfilteredJoin ==
    FinalPassReturned =>
        pipe.result.full_text =
            JoinChars(TextsBeforeConfidence(pipe.tokens), <<" ">>)

\* two tokens of different blocks, the first dropped for its confidence,
\* are both in full_text in engine order and one block is emitted
C25_Witness ==
    /\ FinalPassReturned
    /\ Len(pipe.tokens) = 2
    /\ pipe.tokens[1].conf < CONFIDENCE_THRESHOLD
    /\ pipe.tokens[1].block_num # pipe.tokens[2].block_num
    /\ pipe.result.full_text = <<"a", " ", "b">>
    /\ Len(pipe.result.blocks) = 1
    /\ pipe.result.blocks[1].text = <<"b">>

\* C26: the rectangle of every emitted block is the smallest rectangle
\* that encloses its surviving tokens (right edge max(left + width), bottom
\* edge max(top + height)), and its confidence is their unweighted mean.
C26_RectIsUnionOfTokens ==
    FinalPassReturned =>
        \A k \in 1..Len(pipe.result.blocks) :
            k <= Len(EmittedNums(pipe.tokens)) =>
               LET ts == Survivors(pipe.tokens, EmittedNums(pipe.tokens)[k])
                   b == pipe.result.blocks[k]
               IN /\ b.rect.x = SeqMin(Column(ts, "left"))
                  /\ b.rect.y = SeqMin(Column(ts, "top"))
                  /\ b.rect.x + b.rect.width =
                        SeqMax([i \in 1..Len(ts) |-> ts[i].left + ts[i].width])
                  /\ b.rect.y + b.rect.height =
                        SeqMax([i \in 1..Len(ts) |-> ts[i].top + ts[i].height])
                  /\ b.confidence = Rat(Sum(Column(ts, "conf")), Len(ts))

(***************************************************************************)
(* The cascade on evidence pools that differ in the number of characters   *)
(* of each script.  The collaborators' answers are drawn when the process  *)
(* starts and one call of detect_ocr_language consumes them.               *)
(***************************************************************************)
EvidenceTexts ==
    { <<Run("H", 20), Run("W", 1), Run("L", 5)>>,
      <<Run("H", 20), Run("W", 1), Run("L", 6)>>,
      <<Run("H", 24), Run("L", 1)>>,
      <<Run("L", 25)>>,
      <<Run("H", 5), Run("W", 1), Run("L", 20)>>,
      <<Run("K", 20), Run("L", 5), Run("D", 5)>>,
      <<Run("K", 16), Run("W", 1), Run("L", 5)>>,
      <<Run("Z", 20), Run("L", 6)>>,
      <<Run("H", 12), Run("K", 12)>>,
      <<Run("H", 10), Run("D", 5), Run("L", 10)>>,
      <<Run("D", 25)>>,
      <<Run("D", 12), Run("W", 1), Run("D", 12)>> }

EvidencePatterns == {<<"a", "rr", "rr", "rr">>, <<"sa", "rr", "ra", "ss">>}

EvidenceInputs ==
    {[key |-> o.key, gem |-> o.gem, samples |-> SamplesOf(pat, t),
      hasDet |-> d.hasDet, stat |-> d.stat, fbRead |-> "ok", fbText |-> <<>>] :
        o \in {[key |-> FALSE, gem |-> "fail"], [key |-> TRUE, gem |-> "raise"]},
        pat \in EvidencePatterns, t \in EvidenceTexts,
        d \in {[hasDet |-> FALSE, stat |-> "fail"]}
              \cup {[hasDet |-> TRUE, stat |-> x] : x \in {"raise", "fail", "ja", "xx"}}}

\* detect_ocr_language(image_path) on the drawn answers
EvidenceCall ==
    /\ det.tier = "input"
    /\ \E r \in {detect_ocr_language(det.in, cache)} :
           /\ cache' = r.cache
           /\ det' = [ret |-> r.ret, raised |-> r.raised, tier |-> r.tier,
                      probes |-> DetTraces(r.probes), trials |-> r.trials,
                      tiers |-> r.tiers, failed |-> r.failed, in |-> det.in]
           /\ op' = "detect"
           /\ UNCHANGED <<dsk, prb, conc, cln, engine, listMode, listing, pre, ev, pipe>>

EvidenceEnvironments ==
    {<<"ok", "ok", ListingOf(<<eng, osd>>)>>,
     <<"ok", "ok", ListingOf(<<eng, kor, osd>>)>>,
     <<"ok", "ok", ListingOf(<<chi_sim, eng, jpn, kor, osd>>)>>,
     <<"notfound", "ok", ListingOf(<<>>)>>}

InitEvidence ==
    /\ \E e \in EvidenceEnvironments :
          engine = e[1] /\ listMode = e[2] /\ listing = e[3]
    /\ cache = <<>>
    /\ op = "none"
    /\ \E in \in EvidenceInputs :
          det = [ret |-> None, raised |-> FALSE, tier |-> "input", probes |-> <<>>,
                 trials |-> 0, tiers |-> <<>>, failed |-> "none", in |-> in]
    /\ pre = NoPre /\ ev = NoEv /\ pipe = NoPipe
    /\ prb = NoPrb /\ conc = NoConc /\ cln = NoCln /\ dsk = NoDsk

NextEvidence == EvidenceCall

SpecEvidence == InitEvidence /\ [][NextEvidence]_vars

\* the evidence pool of the call: the accepted samples joined by a space
EvidencePool == JoinSpace(SampleAll(det.in.samples, 1).texts)

\* the supported scripts of the character-frequency tier and the number of
\* characters of each in a text
Scripts == {kor, eng, jpn, chi_sim}

ScriptCount(text, script) ==
    CountClass(text, CASE script = kor -> "H" [] script = eng -> "L"
                       [] script = jpn -> "K" [] OTHER -> "Z")

MatchedCount(text) ==
    ScriptCount(text, kor) + ScriptCount(text, eng) + ScriptCount(text, jpn)
        + ScriptCount(text, chi_sim)

\* the probes the character-frequency tier made
PatternProbes == {i \in 1..Len(det.probes) : det.probes[i].tier = "pattern"}

\* C27: the candidate of the character-frequency tier is a script with the
\* largest count among kor, eng, jpn and chi_sim in the evidence pool,
\* composed with '+eng' exactly when that script is not eng and the Latin
\* count is more than 20% of the matched count; at exactly 20% it is the
\* bare script.
C27_PluralityAndLatinRatio ==
    (op = "detect" /\ PatternProbes # {}) =>
        \A i \in PatternProbes :
            \E main \in Scripts :
                /\ \A s \in Scripts :
                      ScriptCount(EvidencePool, s) <= ScriptCount(EvidencePool, main)
                /\ det.probes[i].key =
                      <<IF main # eng /\ 5 * ScriptCount(EvidencePool, eng)
                                          > MatchedCount(EvidencePool)
                        THEN Plus(main, eng) ELSE main>>

\* the Latin characters are exactly 20% of the matched characters and the
\* bare script kor is the candidate that the tier returns
C27_Witness ==
    /\ op = "detect" /\ det.tier = "pattern" /\ det.ret = kor
    /\ 5 * ScriptCount(EvidencePool, eng) = MatchedCount(EvidencePool)
    /\ ScriptCount(EvidencePool, eng) > 0

\* the evidence pool has text and no character of a supported script
OnlyDigitsAndPunctuation ==
    /\ EvidencePool # <<>>
    /\ \A i \in 1..Len(EvidencePool) : EvidencePool[i].c \in {"D", "W"}
    /\ \E i \in 1..Len(EvidencePool) : EvidencePool[i].c = "D"

\* C28: when the evidence pool holds only digits and punctuation and the
\* oracle gives no answer, detect_ocr_language goes through the sampled
\* tier, the statistical tier and the character-frequency tier, none of
\* which proposes a candidate, and returns the default 'kor+eng'.
C28_DigitsFallToDefault ==
    (op = "detect" /\ OnlyDigitsAndPunctuation
       /\ (~det.in.key \/ det.in.gem \in NoAnswer)) =>
        /\ det.ret = DEFAULT_LANG
        /\ det.tier = "default"
        /\ ~det.raised
        /\ "sampled" \in SeqToSet(det.tiers)
        /\ det.in.hasDet => "statistical" \in SeqToSet(det.tiers)
        /\ "pattern" \in SeqToSet(det.tiers)
        /\ "fallback" \notin SeqToSet(det.tiers)
        /\ det.probes = <<>>

\* a pool of digits, with the detector imported and the packs installed:
\* the three tiers are entered in order and the default is returned
C28_Witness ==
    /\ op = "detect" /\ OnlyDigitsAndPunctuation
    /\ det.in.hasDet /\ ~det.in.key
    /\ det.tiers = <<"sampled", "statistical", "pattern">>
    /\ det.ret = DEFAULT_LANG
    /\ listing = ListingOf(<<chi_sim, eng, jpn, kor, osd>>)

(***************************************************************************)
(* deskew_image of processor.py and of utils.py.  An angle is a whole      *)
(* number of steps; AngleSteps steps make one degree.  `in` holds the      *)
(* angle of cv2.minAreaRect and whether foreground pixels (contours) were  *)
(* found at all.                                                           *)
(***************************************************************************)
\* the resolution of the angles: steps per degree
AngleSteps == 2

Degrees(n) == n * AngleSteps

\* OCRUtils.DESKEW_ANGLE_THRESHOLD = 45.0
DESKEW_ANGLE_THRESHOLD == 45

Kept_(angle) == [rotated |-> FALSE, angle |-> angle]
Rotated(angle) == [rotated |-> TRUE, angle |-> angle]

\* processor.py lines 238-261: the angle passed to cv2.getRotationMatrix2D
deskew_image(in) ==
    LET angle == IF in.angle < -Degrees(45)
                 THEN Degrees(90) + in.angle ELSE in.angle
    IN IF ~in.found THEN Kept_(in.angle)
       \* abs(angle) <= 0.5
       ELSE IF 2 * Abs(angle) <= AngleSteps THEN Kept_(angle)
       ELSE Rotated(angle)

\* utils.py lines 133-151
utils_deskew_image(in) ==
    LET angle == IF in.angle < -Degrees(DESKEW_ANGLE_THRESHOLD)
                 THEN in.angle + Degrees(90)
                 ELSE IF in.angle > Degrees(DESKEW_ANGLE_THRESHOLD)
                 THEN in.angle - Degrees(90)
                 ELSE in.angle
    IN IF ~in.found THEN Kept_(in.angle) ELSE Rotated(angle)

\* the angles cv2.minAreaRect reports, over its versions: [-90, 90]
DeskewInputs ==
    {[angle |-> a, found |-> f] : a \in -Degrees(90)..Degrees(90), f \in BOOLEAN}

DeskewState(fn, in, r) ==
    [outcome |-> "returned", fn |-> fn, in |-> in, rotated |-> r.rotated,
     angle |-> r.angle]

\* a call of deskew_image of processor.py on the drawn estimate
DeskewCall ==
    /\ dsk.outcome = "input"
    /\ dsk' = DeskewState("deskew_image", dsk.in, deskew_image(dsk.in))
    /\ op' = "deskew_image"
    /\ UNCHANGED <<engine, listMode, listing, cache, det, pre, ev, pipe, prb,
                   conc, cln>>

\* a call of deskew_image of utils.py on the drawn estimate
UtilsDeskewCall ==
    /\ dsk.outcome = "input"
    /\ dsk' = DeskewState("utils.deskew_image", dsk.in, utils_deskew_image(dsk.in))
    /\ op' = "deskew_image"
    /\ UNCHANGED <<engine, listMode, listing, cache, det, pre, ev, pipe, prb,
                   conc, cln>>

InitDeskew ==
    /\ engine = "ok" /\ listMode = "ok" /\ listing = ListingOf(<<eng, kor, osd>>)
    /\ cache = <<>>
    /\ op = "none"
    /\ det = NoDet /\ pre = NoPre /\ ev = NoEv /\ pipe = NoPipe
    /\ prb = NoPrb /\ conc = NoConc /\ cln = NoCln
    /\ \E in \in DeskewInputs : dsk = [outcome |-> "input", in |-> in]

NextDeskew == DeskewCall \/ UtilsDeskewCall

SpecDeskew == InitDeskew /\ [][NextDeskew]_vars

\* C30: in both implementations, for every estimated angle in [-90, 90],
\* the angle used for the rotation has magnitude at most 45 degrees.
C30_CorrectionAtMost45 ==
    (op = "deskew_image" /\ dsk.rotated) => Abs(dsk.angle) <= Degrees(45)

====
